---- MODULE Spec2Model ----
(***************************************************************************)
(* A model of the GLC codec of src/src/codec.rs: Encoder::encode (padding, *)
(* frame count, per-frame tasks run in parallel, gapless metadata),        *)
(* Decoder::decode_streaming (the worker thread, its batches, the bounded  *)
(* channel) and Decoder::decode (collecting chunks, gapless trimming).     *)
(*                                                                         *)
(* Sample VALUES are abstract.  A buffer of samples is modelled by its     *)
(* length, and a buffer cut out of the decode worker's output is modelled  *)
(* by the ranges [from, from+len) of that output it holds ("pieces"), so   *)
(* that which samples a drain or a truncate removes is part of the state.  *)
(***************************************************************************)
EXTENDS Integers, Sequences, FiniteSets, TLC

(* ---- program constants (src/src/codec.rs:15-19) ---- *)
FRAME_SIZE == 2048
HOP_SIZE == 1024
FRAMES_PER_CHUNK == 500
DECODE_BATCH == 32
CHANNEL_CAPACITY == 5
COMPRESSION_THRESHOLD_NUM == 85
COMPRESSION_THRESHOLD_DEN == 100

(* ---- bounds of the model ---- *)
MaxChannels == 3        \* encode is called with channels in 0..MaxChannels
MaxHalfHops == 6        \* per-channel input lengths lie around j * HOP_SIZE/2, j in 0..MaxHalfHops
MaxOffset == 1          \* ... at distance at most MaxOffset from such a point
MaxSegments == 2        \* segments of a playlist session
MaxPlaylistHops == 2    \* playlist segments have about j * HOP_SIZE samples per channel
SparseSteps == 1        \* sparse list lengths are i * HOP_SIZE / SparseSteps
MaxLoadBatches == 16    \* a loaded stream has up to MaxLoadBatches * DECODE_BATCH + 1 frames
MaxLongChunks == 6      \* the longest loaded stream has MaxLongChunks * FRAMES_PER_CHUNK frames
KeepSpread == 22        \* kept-bin counts within KeepSpread below 0.85 * HOP_SIZE are tried
QuantBins == 3          \* compress_coefficients is run on QuantBins coefficients
MaxFileFrames == 2      \* a container file written and read back has up to MaxFileFrames frames
MaxArgs == 3            \* the command line has up to MaxArgs arguments after the mode flag

VARIABLES
    plan,                \* number of segments the caller processes in this session
    segs,                \* segments processed so far
    total_original_len,  \* sum of the lengths of the encoded inputs
    total_decoded_len,   \* sum of the lengths of the decoded outputs
    sink_len,            \* player: samples appended to the audio sink so far
    decoder,             \* the Decoder in use: [channels, sample_rate] as given to
                         \* Decoder::new, and decodes, the number of streams it was given
    input,               \* the arguments of the encode call: [len, channels]
    enc_pc,              \* "idle" | "frames" | "returned" | "panicked"
    enc_result,          \* "none" | "Ok" | "Err" | "panic"
    per_chan,            \* encode: lengths of the deinterleaved channels
    padded,              \* encode: lengths of the padded channels
    num_frames,          \* encode: num_frames
    frame_results,       \* encode: frame index -> EncodedFrame, for the finished tasks
    done_order,          \* encode: the finished tasks [fi, start], in the order they finished
    encoded,             \* the EncodedAudio held by the caller
    stream_from,         \* "none" | "encode" | "load"
    dec_pc,              \* the consumer: "idle"; decode(): "recv" | "returned";
                         \* a caller of decode_streaming: "stream" | "played" | "dropped"
    dec_result,          \* "none" | "Ok" | "Err"
    worker_pc,           \* "none" | "loop" | "ola" | "send" | "sendlast" | "exited" | "panicked"
    idx,                 \* worker: idx
    batch_end,           \* worker: batch_end
    batch_results,       \* worker: frame indices of batch_results not yet overlap-added
    consumed_count,      \* worker: number of frames overlap-added so far
    last_consumed,       \* worker: index of the frame overlap-added last (-1: none)
    overlap,             \* worker: the frame whose second block half overlap[ch] holds (-1: zeros)
    last_hop,            \* worker: the hop pushed last: [ov, blk], overlap of frame ov plus
                         \* the first half of block blk (-1: zeros / nothing added)
    chunk_samples,       \* worker: chunk_samples.len()
    emitted,             \* worker: samples pushed to chunk_samples so far
    chan,                \* the bounded channel: chunks sent and not yet received
    sent_log,            \* every chunk a send has put into the channel, in order
    tx_alive,            \* the worker still holds the Sender
    progress_cap,        \* the progress sender given to decode: capacity of its channel (-1: None)
    progress_len,        \* messages waiting in the progress channel
    all,                 \* decode(): the chunks collected, before trimming (pieces)
    decoded,             \* decode(): the buffer returned (pieces)
    task_pc,             \* one per-frame task on its own: "none" | "ready" | "done"
    task_ch,             \* task: ch
    task_keep,           \* task: per channel, the bins that pass the thresholds [lo, n]
    task_sparse,         \* task: sparse_coeffs_per_channel (the bin indices pushed)
    task_frame,          \* task: the EncodedFrame returned
    cli_pc,              \* main: "none" | "parse" | "run" | "exited"
    cli_mode,            \* main: "none" | "encode" | "decode" | "play"
    cli_args,            \* main: the arguments after the program name and the mode flag
    cli_pos,             \* main: arg_idx, then the position in the list of files
    cli_files,           \* main: files_to_decode / files_to_play
    use_ffplay,          \* main: use_ffplay
    has_errors,          \* main: has_errors
    error_seen,          \* an argument was rejected or an operation failed in this run
    exit_code,           \* the exit code of the process (-1: still running)
    file_pc,             \* a container file: "none" | "ready" | "saved" | "loaded"
    file_value,          \* the EncodedAudio given to save_encoded
    file_bytes,          \* the bytes of the file
    file_loaded,         \* what load_encoded returned: [ok, value]
    quant_pc,            \* one call of compress_coefficients: "none" | "ready" | "done"
    quant_coeffs,        \* compress_coefficients: coeffs (thousandths)
    quant_scale,         \* compress_coefficients: scale (thousandths)
    quant_thresholds,    \* compress_coefficients: thresholds (thousandths)
    quant_sparse         \* compress_coefficients: the sparse list returned, pairs << k, q >>

vars == << plan, segs, total_original_len, total_decoded_len, sink_len, decoder, input, enc_pc,
           enc_result, per_chan, padded, num_frames, frame_results, done_order, encoded,
           stream_from, dec_pc, dec_result, worker_pc, idx, batch_end,
           batch_results, consumed_count, last_consumed, overlap, last_hop,
           chunk_samples, emitted, chan, sent_log, tx_alive, progress_cap, progress_len,
           all, decoded,
           task_pc, task_ch, task_keep, task_sparse, task_frame,
           cli_pc, cli_mode, cli_args, cli_pos, cli_files, use_ffplay, has_errors,
           error_seen, exit_code, file_pc, file_value, file_bytes, file_loaded,
           quant_pc, quant_coeffs, quant_scale, quant_thresholds, quant_sparse >>

encVars == << input, enc_pc, enc_result, per_chan, padded, num_frames, frame_results,
              done_order >>
olaVars == << batch_results, consumed_count, last_consumed, overlap, last_hop >>
progVars == << progress_cap, progress_len >>
decVars == << dec_pc, dec_result, worker_pc, idx, batch_end, olaVars, chunk_samples,
              emitted, chan, sent_log, tx_alive, progVars, all, decoded >>
sessionVars == << plan, segs, total_original_len, total_decoded_len, sink_len, decoder >>
taskVars == << task_pc, task_ch, task_keep, task_sparse, task_frame >>

cliVars == << cli_pc, cli_mode, cli_args, cli_pos, cli_files, use_ffplay, has_errors,
             error_seen, exit_code >>

fileVars == << file_pc, file_value, file_bytes, file_loaded >>

\* the state of the parts that stand beside the codec
quantVars == << quant_pc, quant_coeffs, quant_scale, quant_thresholds, quant_sparse >>

\* the state of the parts that stand beside the codec
toolVars == << cliVars, fileVars, quantVars >>

Min(a, b) == IF a < b THEN a ELSE b
Max(a, b) == IF a > b THEN a ELSE b

(* ======================= buffers as pieces ============================ *)

RECURSIVE PiecesLen(_)
PiecesLen(ps) == IF ps = <<>> THEN 0 ELSE Head(ps).len + PiecesLen(Tail(ps))

\* Vec::drain(0..n): the buffer without its first n samples
RECURSIVE DropFront(_, _)
DropFront(ps, n) ==
    IF n = 0 \/ ps = <<>> THEN ps
    ELSE IF Head(ps).len <= n THEN DropFront(Tail(ps), n - Head(ps).len)
    ELSE << [from |-> Head(ps).from + n, len |-> Head(ps).len - n] >> \o Tail(ps)

\* Vec::truncate(n): the first n samples of the buffer
RECURSIVE Truncate(_, _)
Truncate(ps, n) ==
    IF n = 0 \/ ps = <<>> THEN <<>>
    ELSE IF Head(ps).len <= n THEN << Head(ps) >> \o Truncate(Tail(ps), n - Head(ps).len)
    ELSE << [from |-> Head(ps).from, len |-> n] >>

\* Vec::extend(chunk.samples)
Extend(ps, chunk) ==
    IF chunk.len = 0 THEN ps ELSE Append(ps, [from |-> chunk.from, len |-> chunk.len])

(* ============================ frames ================================== *)

NoRaw == [is_some |-> FALSE, len |-> 0]

\* EncodedFrame { sparse_coeffs_per_channel, scale_factors, raw_pcm }:
\* the lengths of the sparse lists, the number of scale factors, the payload
SpectralFrame(sparse, nscales) ==
    [sparse_coeffs_per_channel |-> sparse, scale_factors |-> nscales, raw_pcm |-> NoRaw]

RawFrame(payload_len) ==
    [sparse_coeffs_per_channel |-> <<>>, scale_factors |-> 0,
     raw_pcm |-> [is_some |-> TRUE, len |-> payload_len]]

\* Vec<EncodedFrame> kept as runs of equal frames: << [count, frame], ... >>
RECURSIVE NumFrames(_)
NumFrames(runs) == IF runs = <<>> THEN 0 ELSE Head(runs).count + NumFrames(Tail(runs))

RECURSIVE FrameAt(_, _)
FrameAt(runs, i) ==
    IF i < Head(runs).count THEN Head(runs).frame
    ELSE FrameAt(Tail(runs), i - Head(runs).count)

NoStream ==
    [header |-> [channels |-> 0, total_samples |-> 0],
     frames |-> <<>>,
     gapless_info |-> [encoder_delay |-> 0, padding |-> 0, original_length |-> 0]]

(* ============================ Encoder ================================= *)

\* per_chan[i % ch].push(s) for i in 0..n: the length of channel c (1-based)
DeinterleavedLen(n, ch, c) == (n + ch - c) \div ch

\* mutant: the trailing HOP_SIZE / 2 zeros are left out
PadLenNoTrailing(len) ==
    LET v1 == (HOP_SIZE \div 2) + len
        rem == v1 % HOP_SIZE
    IN  IF rem # 0 THEN v1 + (HOP_SIZE - rem) ELSE v1

\* the padded length of a channel of len samples
PadLen(len) ==
    LET v1 == (HOP_SIZE \div 2) + len
        rem == v1 % HOP_SIZE
        v2 == IF rem # 0 THEN v1 + (HOP_SIZE - rem) ELSE v1
    IN  v2 + (HOP_SIZE \div 2)

\* mutant: the "+ 1" of the frame count is left out
NumFramesForOffByOne(padded_len) ==
    IF padded_len < FRAME_SIZE THEN 1
    ELSE (padded_len - FRAME_SIZE) \div HOP_SIZE

NumFramesFor(padded_len) ==
    IF padded_len < FRAME_SIZE THEN 1
    ELSE (padded_len - FRAME_SIZE) \div HOP_SIZE + 1

\* mutant: only HOP_SIZE samples of each channel are stored
RawFrameSamplesLenHop(ch) == HOP_SIZE * ch

\* raw_frame_samples after the loop over the channels: FRAME_SIZE pushes each
RawFrameSamplesLen(ch) == FRAME_SIZE * ch

\* raw_frame_samples.push(..) inside "for c in 0..ch { for i in 0..FRAME_SIZE }":
\* the payload position that receives windowed sample i of channel c (0-based)
RawPackIndex(c, i) == c * FRAME_SIZE + i

\* the sample indices of a block the claims are probed at
RawProbes == { 0, 1, HOP_SIZE, FRAME_SIZE - 1 }

RECURSIVE SeqSum(_)
SeqSum(s) == IF s = <<>> THEN 0 ELSE Head(s) + SeqSum(Tail(s))

\* mutant: the frame overhead of 64 bytes is left out of the estimate
CompressedSizeNoOverhead(sparse, nscales) ==
    SeqSum([c \in 1..Len(sparse) |-> 8 + sparse[c] * 4]) + (8 + nscales * 4)

CompressedSize(sparse, nscales) ==
    SeqSum([c \in 1..Len(sparse) |-> 8 + sparse[c] * 4]) + (8 + nscales * 4) + 64

RawSize(ch) == FRAME_SIZE * ch * 2

\* compressed_size as f32 >= raw_size as f32 * COMPRESSION_THRESHOLD
UseRaw(sparse, nscales, ch) ==
    CompressedSize(sparse, nscales) * COMPRESSION_THRESHOLD_DEN
        >= RawSize(ch) * COMPRESSION_THRESHOLD_NUM

\* mutant: one scale factor is pushed for the frame, not one per channel
BuildFrameOneScale(sparse, ch) ==
    IF UseRaw(sparse, 1, ch)
    THEN RawFrame(RawFrameSamplesLen(ch))
    ELSE SpectralFrame(sparse, 1)

\* the frame a task returns, given the lengths of the sparse lists it computed
BuildFrame(sparse, ch) ==
    IF UseRaw(sparse, ch, ch)
    THEN RawFrame(RawFrameSamplesLen(ch))
    ELSE SpectralFrame(sparse, ch)

\* &padded[c][start .. start + FRAME_SIZE] is out of bounds for some channel
SliceOutOfBounds(fi, pad) ==
    \E c \in 1..Len(pad) : fi * HOP_SIZE + FRAME_SIZE > pad[c]

\* per-channel lengths around the multiples of HOP_SIZE / 2
FrameLens ==
    { n \in { j * (HOP_SIZE \div 2) + d : j \in 0..MaxHalfHops, d \in (0 - MaxOffset)..MaxOffset } :
        n >= 0 }

\* samples.len() for a call with ch channels: whole frames, or up to
\* MaxOffset samples more (a length that is no multiple of ch)
SampleLens(ch) ==
    { len * Max(ch, 1) + r : len \in FrameLens, r \in 0..Min(MaxOffset, Max(ch, 1) - 1) }

PlaylistLens(ch) ==
    { (j * HOP_SIZE + d) * Max(ch, 1) : j \in 1..MaxPlaylistHops, d \in 0..1 }

InputLens(ch) == IF plan = 1 THEN SampleLens(ch) ELSE PlaylistLens(ch)

InputChannels == IF plan = 1 THEN 0..MaxChannels ELSE 0..2

SparseLens == { (i * HOP_SIZE) \div SparseSteps : i \in 0..SparseSteps }

\* encode(), up to the parallel map over the frames
EncodeCall(n, ch) ==
    /\ enc_pc = "idle" /\ dec_pc = "idle" /\ stream_from = "none"
    /\ segs < plan
    /\ input' = [len |-> n, channels |-> ch]
    /\ frame_results' = << >>
    /\ done_order' = << >>
    /\ IF ch = 0
       THEN \* samples.len() / ch: division by zero
            /\ enc_pc' = "panicked"
            /\ enc_result' = "panic"
            /\ UNCHANGED << per_chan, padded, num_frames >>
       ELSE /\ per_chan' = [c \in 1..ch |-> DeinterleavedLen(n, ch, c)]
            /\ padded' = [c \in 1..ch |-> PadLen(DeinterleavedLen(n, ch, c))]
            /\ num_frames' = NumFramesFor(PadLen(DeinterleavedLen(n, ch, 1)))
            /\ enc_pc' = "frames"
            /\ enc_result' = "none"
    /\ UNCHANGED << encoded, stream_from >>
    /\ UNCHANGED decVars
    /\ UNCHANGED sessionVars
    /\ UNCHANGED taskVars
    /\ UNCHANGED toolVars

\* one task of the parallel map: frame fi, whose channels' sparse lists
\* have the lengths sparse
EncodeFrame(fi, sparse) ==
    /\ enc_pc = "frames"
    /\ fi \in 0..(num_frames - 1)
    /\ fi \notin DOMAIN frame_results
    /\ Len(sparse) = input.channels
    /\ IF SliceOutOfBounds(fi, padded)
       THEN /\ enc_pc' = "panicked"
            /\ enc_result' = "panic"
            /\ UNCHANGED << frame_results, done_order >>
       ELSE /\ frame_results' = (fi :> BuildFrame(sparse, input.channels)) @@ frame_results
            /\ done_order' = Append(done_order, [fi |-> fi, start |-> fi * HOP_SIZE])
            /\ UNCHANGED << enc_pc, enc_result >>
    /\ UNCHANGED << input, per_chan, padded, num_frames, encoded, stream_from >>
    /\ UNCHANGED decVars
    /\ UNCHANGED sessionVars
    /\ UNCHANGED taskVars
    /\ UNCHANGED toolVars

\* mutant: the frames are stored in the order the tasks finished
CollectFramesAsFinished(order, results) ==
    [i \in 1..Len(order) |-> [count |-> 1, frame |-> results[order[i].fi]]]

\* collect() of the indexed parallel iterator: the result of item fi is
\* element fi of the Vec, whatever the order the tasks finished in
CollectFrames(order, results) ==
    [i \in 1..Len(order) |-> [count |-> 1, frame |-> results[i - 1]]]

\* collect() and the gapless metadata
EncodeFinish ==
    /\ enc_pc = "frames"
    /\ DOMAIN frame_results = 0..(num_frames - 1)
    /\ encoded' =
         [header |-> [channels |-> input.channels, total_samples |-> input.len],
          frames |-> CollectFrames(done_order, frame_results),
          gapless_info |->
            [encoder_delay |-> HOP_SIZE \div 2,
             padding |-> padded[1] - per_chan[1] - (HOP_SIZE \div 2),
             original_length |-> input.len]]
    /\ stream_from' = "encode"
    /\ enc_pc' = "returned"
    /\ enc_result' = "Ok"
    /\ UNCHANGED << input, per_chan, padded, num_frames, frame_results, done_order >>
    /\ UNCHANGED decVars
    /\ UNCHANGED sessionVars
    /\ UNCHANGED taskVars
    /\ UNCHANGED toolVars

(* ==================== one per-frame task on its own =================== *)

\* the bins lo .. lo + n - 1
KeepSet(keep) == { k \in keep.lo..(keep.lo + keep.n - 1) : TRUE }

\* mutant: the index pushed is k + 1
CompressCoefficientsShifted(ncoeffs, kept) ==
    LET ks == SelectSeq([j \in 1..ncoeffs |-> j - 1], LAMBDA k : k \in kept)
    IN  [j \in 1..Len(ks) |-> (ks[j] + 1) % 65536]

\* compress_coefficients: for (k, coeff) in coeffs.iter().enumerate(), the
\* coefficients of the bins in kept pass the thresholds and quantize to a
\* non-zero value, and (k as u16, q) is pushed for each of them
CompressCoefficients(ncoeffs, kept) ==
    LET ks == SelectSeq([j \in 1..ncoeffs |-> j - 1], LAMBDA k : k \in kept)
    IN  [j \in 1..Len(ks) |-> ks[j] % 65536]

\* the numbers of bins kept: none, one, all, and the counts around the
\* Raw/Spectral decision
KeepCounts ==
    { 0, 1, HOP_SIZE }
      \cup { (HOP_SIZE * COMPRESSION_THRESHOLD_NUM) \div COMPRESSION_THRESHOLD_DEN - d :
               d \in 0..KeepSpread }

\* n bins: the lowest ones for even n, the highest ones for odd n
KeepOf(n) == [lo |-> IF n % 2 = 0 THEN 0 ELSE HOP_SIZE - n, n |-> n]

TaskKeeps(ch) ==
    { [c \in 1..ch |-> IF c = 1 THEN KeepOf(a) ELSE KeepOf(b)] :
        a \in KeepCounts, b \in KeepCounts }

\* the body of the parallel map for one frame: compress every channel, then
\* decide between the Raw and the Spectral frame
TaskRun ==
    /\ task_pc = "ready"
    /\ LET sparse == [c \in 1..task_ch |->
                         CompressCoefficients(HOP_SIZE, KeepSet(task_keep[c]))]
       IN  /\ task_sparse' = sparse
           /\ task_frame' = BuildFrame([c \in 1..task_ch |-> Len(sparse[c])], task_ch)
    /\ task_pc' = "done"
    /\ UNCHANGED << task_ch, task_keep >>
    /\ UNCHANGED << encoded, stream_from >>
    /\ UNCHANGED encVars
    /\ UNCHANGED decVars
    /\ UNCHANGED sessionVars
    /\ UNCHANGED toolVars

(* ========================= load_encoded =============================== *)

ZeroSparse(n) == [c \in 1..n |-> 0]

\* the frames bincode can deserialize for a stream of ch channels
FrameShapes(ch) ==
    { SpectralFrame(ZeroSparse(ch), ch),
      SpectralFrame(ZeroSparse(ch - 1), ch),
      SpectralFrame(ZeroSparse(ch), ch - 1),
      RawFrame(FRAME_SIZE * ch),
      RawFrame(HOP_SIZE * ch) }

LoadPrefixLens == { 0, 1, MaxLoadBatches * DECODE_BATCH }

\* a stream of n well-formed Spectral frames followed by the frames of tail
LoadedStream(ch, n, tail) ==
    [header |-> [channels |-> ch, total_samples |-> (n + Len(tail)) * HOP_SIZE * ch],
     frames |-> (IF n = 0 THEN <<>>
                 ELSE << [count |-> n, frame |-> SpectralFrame(ZeroSparse(ch), ch)] >>)
                \o tail,
     gapless_info |->
       [encoder_delay |-> HOP_SIZE \div 2, padding |-> HOP_SIZE \div 2,
        original_length |-> (n + Len(tail)) * HOP_SIZE * ch]]

LoadTails(ch) == { <<>> } \cup { << [count |-> 1, frame |-> f] >> : f \in FrameShapes(ch) }

\* a playlist session loads mono files only
LoadChannels == IF plan = 1 THEN 1..MaxChannels ELSE 1..1

\* streams of whole chunks: one chunk for every channel count, and a mono
\* stream of more chunks than the channel holds
LongStreams ==
    IF plan = 1
    THEN { LoadedStream(ch, FRAMES_PER_CHUNK, <<>>) : ch \in LoadChannels }
           \cup { LoadedStream(1, MaxLongChunks * FRAMES_PER_CHUNK, <<>>) }
    ELSE { }

LoadableStreams ==
    UNION { { LoadedStream(ch, n, tail) : n \in LoadPrefixLens, tail \in LoadTails(ch) } :
            ch \in LoadChannels }
      \cup LongStreams

\* load_encoded: whatever deserializes is returned, unvalidated
LoadEncoded(s) ==
    /\ enc_pc = "idle" /\ dec_pc = "idle" /\ stream_from = "none"
    /\ segs < plan
    /\ encoded' = s
    /\ stream_from' = "load"
    /\ UNCHANGED encVars
    /\ UNCHANGED decVars
    /\ UNCHANGED sessionVars
    /\ UNCHANGED taskVars
    /\ UNCHANGED toolVars

(* ============================ Decoder ================================= *)

\* frame.sparse_coeffs_per_channel[ch] or frame.scale_factors[ch] is out of bounds
FramePanics(frame, channels) ==
    /\ ~ frame.raw_pcm.is_some
    /\ \/ channels > Len(frame.sparse_coeffs_per_channel)
       \/ channels > frame.scale_factors

\* let sample_idx = i * channels + ch: the payload position read for sample i
\* of channel ch (0-based)
RawUnpackIndex(i, ch, channels) == i * channels + ch

\* Decoder::new(channels, sample_rate)
DecoderNew(channels, sample_rate) ==
    decoder = [channels |-> channels, sample_rate |-> sample_rate, decodes |-> 0]

\* the arguments of Decoder::new tried: those of the tests (one channel,
\* whatever the stream holds), and others
DecoderArgs ==
    { [channels |-> 1, sample_rate |-> 44100],
      [channels |-> 2, sample_rate |-> 48000],
      [channels |-> 0, sample_rate |-> 8000] }

\* mutant: the worker counts channels as the Decoder was told
DecodeChannelsOfDecoder(dec, header) == dec.channels

\* let channels = encoded.header.channels as usize
DecodeChannels(dec, header) == header.channels

\* progress_sender is None
NoProgress == -1

\* the worker reports progress before the send of a full chunk
BeforeSend == IF progress_cap = NoProgress THEN "send" ELSE "progress"

\* after the last chunk the worker reports completion, then the thread ends
AfterLastSend == IF progress_cap = NoProgress THEN "exited" ELSE "complete"

\* vec![vec![0.0f32; HOP_SIZE]; channels]: the overlap buffers hold zeros
ZeroOverlap == -1

\* no hop has been pushed
NoHop == [ov |-> -1, blk |-> -1]

\* position in the pushed hop of sample i of channel ch (i outer, ch inner)
HopIndex(i, ch, channels) == i * channels + ch

\* mutant: the overlap buffers are not updated
OverlapAddStale(ov, fi) ==
    [hop |-> [ov |-> ov, blk |-> fi], overlap |-> ov]

\* the body of the overlap-add loop for the block of frame fi: the hop pushed
\* is overlap[ch][i] + block[ch][i], then overlap[ch] = block[ch][H..N]
OverlapAdd(ov, fi) ==
    [hop |-> [ov |-> ov, blk |-> fi], overlap |-> fi]

\* decode(): decode_streaming creates the channel and spawns the worker
DecodeCall ==
    /\ dec_pc = "idle"
    /\ stream_from # "none"
    /\ dec_pc' = "recv"
    /\ dec_result' = "none"
    /\ worker_pc' = "loop"
    /\ idx' = 0
    /\ batch_end' = 0
    /\ batch_results' = << >>
    /\ consumed_count' = 0
    /\ last_consumed' = -1
    /\ overlap' = ZeroOverlap
    /\ last_hop' = NoHop
    /\ chunk_samples' = 0
    /\ emitted' = 0
    /\ chan' = << >>
    /\ sent_log' = << >>
    /\ tx_alive' = TRUE
    /\ progress_cap' = NoProgress
    /\ progress_len' = 0
    /\ all' = << >>
    /\ decoded' = << >>
    /\ done_order' = << >>    \* the schedule of the encode tasks is forgotten
    /\ UNCHANGED << encoded, stream_from >>
    /\ UNCHANGED << input, enc_pc, enc_result, per_chan, padded, num_frames, frame_results >>
    /\ decoder' = [decoder EXCEPT !.decodes = @ + 1]
    /\ UNCHANGED << plan, segs, total_original_len, total_decoded_len, sink_len >>
    /\ UNCHANGED taskVars
    /\ UNCHANGED toolVars

\* the orders in which the tasks of a batch may finish
BatchSchedules == { "ascending", "descending", "rotated" }

\* the frame indices lo .. hi - 1 in the order their tasks finish
Completion(kind, lo, hi) ==
    [j \in 1..(hi - lo) |->
        CASE kind = "ascending" -> lo + j - 1
          [] kind = "descending" -> hi - j
          [] kind = "rotated" -> lo + (j % (hi - lo))]

\* mutant: the results are used in the order the tasks finished
BatchResultsAsFinished(completion) == completion

\* collect(), then batch_results.sort_unstable_by_key(|(fi, _)| *fi)
BatchResults(completion) == SortSeq(completion, LAMBDA a, b : a < b)

\* while idx < total_frames: decode the next batch in parallel
WorkerBatch ==
    /\ worker_pc = "loop"
    /\ idx < NumFrames(encoded.frames)
    /\ LET be == Min(idx + DECODE_BATCH, NumFrames(encoded.frames))
       IN  IF \E fi \in idx..(be - 1) :
                 FramePanics(FrameAt(encoded.frames, fi), DecodeChannels(decoder, encoded.header))
           THEN \* the task's panic unwinds the worker thread; tx is dropped
                /\ worker_pc' = "panicked"
                /\ tx_alive' = FALSE
                /\ UNCHANGED << batch_end, batch_results >>
           ELSE /\ worker_pc' = "ola"
                /\ batch_end' = be
                /\ \E kind \in BatchSchedules :
                      batch_results' = BatchResults(Completion(kind, idx, be))
                /\ UNCHANGED tx_alive
    /\ UNCHANGED << consumed_count, last_consumed, overlap, last_hop >>
    /\ UNCHANGED << idx, chunk_samples, emitted, chan, all, decoded, dec_pc, dec_result >>
    /\ UNCHANGED progVars
    /\ UNCHANGED sent_log
    /\ UNCHANGED << encoded, stream_from >>
    /\ UNCHANGED encVars
    /\ UNCHANGED sessionVars
    /\ UNCHANGED taskVars
    /\ UNCHANGED toolVars

\* after a frame: idx += 1, and back to the while loop at the end of the batch
AfterFrame(i) == IF i + 1 >= batch_end THEN "loop" ELSE "ola"

\* overlap-add of the next element of batch_results: HOP_SIZE * channels pushes
WorkerOverlapAdd ==
    /\ worker_pc = "ola"
    /\ batch_results # << >>
    /\ last_consumed' = Head(batch_results)
    /\ batch_results' = Tail(batch_results)
    /\ last_hop' = OverlapAdd(overlap, Head(batch_results)).hop
    /\ overlap' = OverlapAdd(overlap, Head(batch_results)).overlap
    /\ consumed_count' = consumed_count + 1
    /\ LET n == chunk_samples + HOP_SIZE * DecodeChannels(decoder, encoded.header)
       IN  /\ chunk_samples' = n
           /\ emitted' = emitted + HOP_SIZE * DecodeChannels(decoder, encoded.header)
           /\ IF n >= FRAMES_PER_CHUNK * HOP_SIZE * DecodeChannels(decoder, encoded.header)
              THEN /\ worker_pc' = BeforeSend
                   /\ UNCHANGED idx
              ELSE /\ worker_pc' = AfterFrame(idx)
                   /\ idx' = idx + 1
    /\ UNCHANGED << batch_end, chan, tx_alive, progress_cap, progress_len, all, decoded, dec_pc, dec_result >>
    /\ UNCHANGED sent_log
    /\ UNCHANGED << encoded, stream_from >>
    /\ UNCHANGED encVars
    /\ UNCHANGED sessionVars
    /\ UNCHANGED taskVars
    /\ UNCHANGED toolVars

\* the Receiver of the chunk channel has not been dropped
RxAlive == dec_pc \in { "recv", "stream" }

\* mutant: the send does not wait for room in the channel
WorkerSendUnbounded ==
    /\ worker_pc = "send"
    /\ chan' = Append(chan, [from |-> emitted - chunk_samples,
                             len |-> chunk_samples, is_last |-> FALSE])
    /\ sent_log' = Append(sent_log, [from |-> emitted - chunk_samples,
                                     len |-> chunk_samples, is_last |-> FALSE])
    /\ chunk_samples' = 0
    /\ worker_pc' = AfterFrame(idx)
    /\ idx' = idx + 1
    /\ UNCHANGED << batch_end, emitted, tx_alive, progress_cap, progress_len, all, decoded, dec_pc, dec_result >>
    /\ UNCHANGED olaVars
    /\ UNCHANGED << encoded, stream_from >>
    /\ UNCHANGED encVars
    /\ UNCHANGED sessionVars
    /\ UNCHANGED taskVars
    /\ UNCHANGED toolVars

\* mutant: the send keeps waiting for room after the receiver is gone
WorkerSendNoDisconnect ==
    /\ worker_pc = "send"
    /\ RxAlive
    /\ Len(chan) < CHANNEL_CAPACITY
    /\ chan' = Append(chan, [from |-> emitted - chunk_samples,
                             len |-> chunk_samples, is_last |-> FALSE])
    /\ sent_log' = Append(sent_log, [from |-> emitted - chunk_samples,
                                     len |-> chunk_samples, is_last |-> FALSE])
    /\ chunk_samples' = 0
    /\ worker_pc' = AfterFrame(idx)
    /\ idx' = idx + 1
    /\ UNCHANGED << batch_end, emitted, tx_alive, progress_cap, progress_len, all, decoded, dec_pc, dec_result >>
    /\ UNCHANGED olaVars
    /\ UNCHANGED << encoded, stream_from >>
    /\ UNCHANGED encVars
    /\ UNCHANGED sessionVars
    /\ UNCHANGED taskVars
    /\ UNCHANGED toolVars

\* tx.send(AudioChunk { is_last: false }): blocks while the channel is full;
\* fails at once (and is ignored) when the receiver is gone
WorkerSend ==
    /\ worker_pc = "send"
    /\ \/ /\ RxAlive
          /\ Len(chan) < CHANNEL_CAPACITY
          /\ chan' = Append(chan, [from |-> emitted - chunk_samples,
                                   len |-> chunk_samples, is_last |-> FALSE])
          /\ sent_log' = Append(sent_log, [from |-> emitted - chunk_samples,
                                           len |-> chunk_samples, is_last |-> FALSE])
       \/ /\ ~ RxAlive
          /\ UNCHANGED << chan, sent_log >>
    /\ chunk_samples' = 0
    /\ worker_pc' = AfterFrame(idx)
    /\ idx' = idx + 1
    /\ UNCHANGED << batch_end, emitted, tx_alive, progress_cap, progress_len, all, decoded, dec_pc, dec_result >>
    /\ UNCHANGED olaVars
    /\ UNCHANGED << encoded, stream_from >>
    /\ UNCHANGED encVars
    /\ UNCHANGED sessionVars
    /\ UNCHANGED taskVars
    /\ UNCHANGED toolVars

\* mutant: the final overlap is not appended
WorkerFinalNoOverlap ==
    /\ worker_pc = "loop"
    /\ idx >= NumFrames(encoded.frames)
    /\ worker_pc' = "sendlast"
    /\ UNCHANGED << chunk_samples, emitted >>
    /\ UNCHANGED << idx, batch_end, chan, tx_alive, progress_cap, progress_len, all, decoded, dec_pc, dec_result >>
    /\ UNCHANGED sent_log
    /\ UNCHANGED olaVars
    /\ UNCHANGED << encoded, stream_from >>
    /\ UNCHANGED encVars
    /\ UNCHANGED sessionVars
    /\ UNCHANGED taskVars
    /\ UNCHANGED toolVars

\* the final overlap: HOP_SIZE * channels more pushes
WorkerFinal ==
    /\ worker_pc = "loop"
    /\ idx >= NumFrames(encoded.frames)
    /\ chunk_samples' = chunk_samples + HOP_SIZE * DecodeChannels(decoder, encoded.header)
    /\ emitted' = emitted + HOP_SIZE * DecodeChannels(decoder, encoded.header)
    /\ worker_pc' = "sendlast"
    /\ UNCHANGED << idx, batch_end, chan, tx_alive, progress_cap, progress_len, all, decoded, dec_pc, dec_result >>
    /\ UNCHANGED sent_log
    /\ last_hop' = [ov |-> overlap, blk |-> -1]
    /\ UNCHANGED << batch_results, consumed_count, last_consumed, overlap >>
    /\ UNCHANGED << encoded, stream_from >>
    /\ UNCHANGED encVars
    /\ UNCHANGED sessionVars
    /\ UNCHANGED taskVars
    /\ UNCHANGED toolVars

\* mutant: the last chunk is sent with is_last = false
WorkerSendLastUnmarked ==
    /\ worker_pc = "sendlast"
    /\ \/ /\ RxAlive
          /\ Len(chan) < CHANNEL_CAPACITY
          /\ chan' = Append(chan, [from |-> emitted - chunk_samples,
                                   len |-> chunk_samples, is_last |-> FALSE])
          /\ sent_log' = Append(sent_log, [from |-> emitted - chunk_samples,
                                           len |-> chunk_samples, is_last |-> FALSE])
       \/ /\ ~ RxAlive
          /\ UNCHANGED << chan, sent_log >>
    /\ worker_pc' = AfterLastSend
    /\ tx_alive' = (AfterLastSend # "exited")
    /\ UNCHANGED progVars
    /\ UNCHANGED << idx, batch_end, chunk_samples, emitted, all, decoded, dec_pc, dec_result >>
    /\ UNCHANGED olaVars
    /\ UNCHANGED << encoded, stream_from >>
    /\ UNCHANGED encVars
    /\ UNCHANGED sessionVars
    /\ UNCHANGED taskVars
    /\ UNCHANGED toolVars

\* tx.send(AudioChunk { is_last: true }), then the thread ends
WorkerSendLast ==
    /\ worker_pc = "sendlast"
    /\ \/ /\ RxAlive
          /\ Len(chan) < CHANNEL_CAPACITY
          /\ chan' = Append(chan, [from |-> emitted - chunk_samples,
                                   len |-> chunk_samples, is_last |-> TRUE])
          /\ sent_log' = Append(sent_log, [from |-> emitted - chunk_samples,
                                           len |-> chunk_samples, is_last |-> TRUE])
       \/ /\ ~ RxAlive
          /\ UNCHANGED << chan, sent_log >>
    /\ worker_pc' = AfterLastSend
    /\ tx_alive' = (AfterLastSend # "exited")
    /\ UNCHANGED progVars
    /\ UNCHANGED << idx, batch_end, chunk_samples, emitted, all, decoded, dec_pc, dec_result >>
    /\ UNCHANGED olaVars
    /\ UNCHANGED << encoded, stream_from >>
    /\ UNCHANGED encVars
    /\ UNCHANGED sessionVars
    /\ UNCHANGED taskVars
    /\ UNCHANGED toolVars

\* the number of leading samples decode() removes
TrimDelay(gapless, channels) == gapless.encoder_delay

\* mutant: the truncation to original_length is left out
GaplessTrimNoTruncate(buf, gapless, channels) ==
    IF PiecesLen(buf) > gapless.encoder_delay
    THEN DropFront(buf, gapless.encoder_delay)
    ELSE buf

\* gapless trimming of the collected buffer
GaplessTrim(buf, gapless, channels) ==
    LET delay == TrimDelay(gapless, channels)
        a1 == IF PiecesLen(buf) > delay THEN DropFront(buf, delay) ELSE buf
    IN  IF PiecesLen(a1) > gapless.original_length
        THEN Truncate(a1, gapless.original_length)
        ELSE a1

\* the end of decode(): trim what was collected and return Ok(all)
DecodeReturn(buf) ==
    /\ all' = buf
    /\ decoded' = GaplessTrim(buf, encoded.gapless_info, encoded.header.channels)
    /\ dec_result' = "Ok"
    /\ dec_pc' = "returned"

\* mutant: recv yields a chunk only once the channel is full
DecodeRecvWhenFull ==
    /\ dec_pc = "recv"
    /\ Len(chan) = CHANNEL_CAPACITY
    /\ chan' = Tail(chan)
    /\ IF Head(chan).is_last
       THEN DecodeReturn(Extend(all, Head(chan)))
       ELSE /\ all' = Extend(all, Head(chan))
            /\ UNCHANGED << decoded, dec_result, dec_pc >>
    /\ UNCHANGED << worker_pc, idx, batch_end, chunk_samples, emitted, tx_alive, progress_cap, progress_len >>
    /\ UNCHANGED sent_log
    /\ UNCHANGED olaVars
    /\ UNCHANGED << encoded, stream_from >>
    /\ UNCHANGED encVars
    /\ UNCHANGED sessionVars
    /\ UNCHANGED taskVars
    /\ UNCHANGED toolVars

\* rx.recv() yields a chunk
DecodeRecv ==
    /\ dec_pc = "recv"
    /\ chan # << >>
    /\ chan' = Tail(chan)
    /\ IF Head(chan).is_last
       THEN DecodeReturn(Extend(all, Head(chan)))
       ELSE /\ all' = Extend(all, Head(chan))
            /\ UNCHANGED << decoded, dec_result, dec_pc >>
    /\ UNCHANGED << worker_pc, idx, batch_end, chunk_samples, emitted, tx_alive, progress_cap, progress_len >>
    /\ UNCHANGED sent_log
    /\ UNCHANGED olaVars
    /\ UNCHANGED << encoded, stream_from >>
    /\ UNCHANGED encVars
    /\ UNCHANGED sessionVars
    /\ UNCHANGED taskVars
    /\ UNCHANGED toolVars

\* rx.recv() yields Err: the channel is empty and the Sender was dropped
DecodeRecvDisconnected ==
    /\ dec_pc = "recv"
    /\ chan = << >>
    /\ ~ tx_alive
    /\ DecodeReturn(all)
    /\ UNCHANGED << worker_pc, idx, batch_end, chunk_samples, emitted, chan, tx_alive, progress_cap, progress_len >>
    /\ UNCHANGED sent_log
    /\ UNCHANGED olaVars
    /\ UNCHANGED << encoded, stream_from >>
    /\ UNCHANGED encVars
    /\ UNCHANGED sessionVars
    /\ UNCHANGED taskVars
    /\ UNCHANGED toolVars

(* ========================= progress reports =========================== *)

\* capacities of the channel behind the progress sender (the player of
\* src/src/ui.rs uses bounded(10))
ProgressCaps == { 1, 10 }

\* decode(&encoded, Some(sender)): as DecodeCall, but the worker is given a
\* Sender<Progress> of a bounded channel whose Receiver the caller keeps
DecodeCallProgress(cap) ==
    /\ dec_pc = "idle"
    /\ stream_from # "none"
    /\ dec_pc' = "recv"
    /\ dec_result' = "none"
    /\ worker_pc' = "status"
    /\ idx' = 0
    /\ batch_end' = 0
    /\ batch_results' = << >>
    /\ consumed_count' = 0
    /\ last_consumed' = -1
    /\ overlap' = ZeroOverlap
    /\ last_hop' = NoHop
    /\ chunk_samples' = 0
    /\ emitted' = 0
    /\ chan' = << >>
    /\ sent_log' = << >>
    /\ tx_alive' = TRUE
    /\ progress_cap' = cap
    /\ progress_len' = 0
    /\ all' = << >>
    /\ decoded' = << >>
    /\ done_order' = << >>
    /\ UNCHANGED << encoded, stream_from >>
    /\ UNCHANGED << input, enc_pc, enc_result, per_chan, padded, num_frames, frame_results >>
    /\ decoder' = [decoder EXCEPT !.decodes = @ + 1]
    /\ UNCHANGED << plan, segs, total_original_len, total_decoded_len, sink_len >>
    /\ UNCHANGED taskVars
    /\ UNCHANGED toolVars

\* s.send(..) on the progress channel: waits while the channel is full
ProgressSend ==
    /\ progress_len < progress_cap
    /\ progress_len' = progress_len + 1
    /\ UNCHANGED progress_cap

\* what a step of the worker that only reports progress leaves alone
ProgressOnly ==
    /\ UNCHANGED << dec_pc, dec_result, idx, batch_end, olaVars, chunk_samples, emitted,
                    chan, sent_log, all, decoded >>
    /\ UNCHANGED << encoded, stream_from >>
    /\ UNCHANGED encVars
    /\ UNCHANGED sessionVars
    /\ UNCHANGED taskVars
    /\ UNCHANGED toolVars

\* s.send(Progress::Status(..)) at the start of the thread
WorkerStatus ==
    /\ worker_pc = "status"
    /\ ProgressSend
    /\ worker_pc' = "loop"
    /\ UNCHANGED tx_alive
    /\ ProgressOnly

\* s.send(Progress::Decoding(..)) before a full chunk is sent
WorkerProgress ==
    /\ worker_pc = "progress"
    /\ ProgressSend
    /\ worker_pc' = "send"
    /\ UNCHANGED tx_alive
    /\ ProgressOnly

\* s.send(Progress::Complete(..)) after the last chunk; the thread ends
WorkerComplete ==
    /\ worker_pc = "complete"
    /\ ProgressSend
    /\ worker_pc' = "exited"
    /\ tx_alive' = FALSE
    /\ ProgressOnly

\* the holder of the progress Receiver takes a message (try_recv)
ProgressRecv ==
    /\ progress_cap # NoProgress
    /\ progress_len > 0
    /\ progress_len' = progress_len - 1
    /\ UNCHANGED << progress_cap, worker_pc, tx_alive >>
    /\ ProgressOnly

ProgressStep == WorkerStatus \/ WorkerProgress \/ WorkerComplete

(* ================== callers of decode_streaming ======================= *)

\* decode_streaming(encoded, None) called by a player: the channel is
\* created, the worker spawned, and the caller holds the Receiver
StreamCall ==
    /\ dec_pc = "idle"
    /\ stream_from = "load"
    /\ dec_pc' = "stream"
    /\ dec_result' = "none"
    /\ worker_pc' = "loop"
    /\ idx' = 0
    /\ batch_end' = 0
    /\ batch_results' = << >>
    /\ consumed_count' = 0
    /\ last_consumed' = -1
    /\ overlap' = ZeroOverlap
    /\ last_hop' = NoHop
    /\ chunk_samples' = 0
    /\ emitted' = 0
    /\ chan' = << >>
    /\ sent_log' = << >>
    /\ tx_alive' = TRUE
    /\ progress_cap' = NoProgress
    /\ progress_len' = 0
    /\ all' = << >>
    /\ decoded' = << >>
    /\ UNCHANGED << encoded, stream_from >>
    /\ UNCHANGED encVars
    /\ decoder' = [decoder EXCEPT !.decodes = @ + 1]
    /\ UNCHANGED << plan, segs, total_original_len, total_decoded_len, sink_len >>
    /\ UNCHANGED taskVars
    /\ UNCHANGED toolVars

\* sink.append(SamplesSource::new(chunk.samples.clone(), ..)): the number of
\* samples of the chunk that are queued
SinkAppend(chunk) == chunk.len

\* while let Ok(chunk) = rx.recv(): the chunk is appended to the sink, and
\* the loop ends (rx is dropped) after the chunk with is_last
StreamRecv ==
    /\ dec_pc = "stream"
    /\ chan # << >>
    /\ chan' = Tail(chan)
    /\ all' = Extend(all, Head(chan))
    /\ sink_len' = sink_len + SinkAppend(Head(chan))
    /\ dec_pc' = IF Head(chan).is_last THEN "played" ELSE "stream"
    /\ UNCHANGED << decoded, dec_result >>
    /\ UNCHANGED << worker_pc, idx, batch_end, chunk_samples, emitted, tx_alive, progress_cap, progress_len >>
    /\ UNCHANGED olaVars
    /\ UNCHANGED sent_log
    /\ UNCHANGED << encoded, stream_from >>
    /\ UNCHANGED encVars
    /\ UNCHANGED << plan, segs, total_original_len, total_decoded_len, decoder >>
    /\ UNCHANGED taskVars
    /\ UNCHANGED toolVars

\* rx.recv() yields Err (the worker is gone and the channel empty): the loop ends
StreamRecvDisconnected ==
    /\ dec_pc = "stream"
    /\ chan = << >>
    /\ ~ tx_alive
    /\ dec_pc' = "played"
    /\ UNCHANGED << all, decoded, dec_result >>
    /\ UNCHANGED << worker_pc, idx, batch_end, chunk_samples, emitted, chan, tx_alive, progress_cap, progress_len >>
    /\ UNCHANGED olaVars
    /\ UNCHANGED sent_log
    /\ UNCHANGED << encoded, stream_from >>
    /\ UNCHANGED encVars
    /\ UNCHANGED sessionVars
    /\ UNCHANGED taskVars
    /\ UNCHANGED toolVars

\* the caller leaves its loop before the last chunk (playback stopped, the
\* output pipe closed) and drops the Receiver; the chunks still buffered are
\* discarded with it
StreamStop ==
    /\ dec_pc = "stream"
    /\ dec_pc' = "dropped"
    /\ chan' = << >>
    /\ UNCHANGED << all, decoded, dec_result >>
    /\ UNCHANGED << worker_pc, idx, batch_end, chunk_samples, emitted, tx_alive, progress_cap, progress_len >>
    /\ UNCHANGED olaVars
    /\ UNCHANGED sent_log
    /\ UNCHANGED << encoded, stream_from >>
    /\ UNCHANGED encVars
    /\ UNCHANGED sessionVars
    /\ UNCHANGED taskVars
    /\ UNCHANGED toolVars

\* play_files_gapless: the for loop goes on to the next path
PlayNext ==
    /\ dec_pc = "played"
    /\ segs' = segs + 1
    /\ total_original_len' = total_original_len + encoded.gapless_info.original_length
    /\ stream_from' = "none"
    /\ encoded' = NoStream
    /\ dec_pc' = "idle"
    /\ dec_result' = "none"
    /\ worker_pc' = "none"
    /\ idx' = 0
    /\ batch_end' = 0
    /\ batch_results' = << >>
    /\ consumed_count' = 0
    /\ last_consumed' = -1
    /\ overlap' = ZeroOverlap
    /\ last_hop' = NoHop
    /\ chunk_samples' = 0
    /\ emitted' = 0
    /\ chan' = << >>
    /\ sent_log' = << >>
    /\ tx_alive' = FALSE
    /\ progress_cap' = NoProgress
    /\ progress_len' = 0
    /\ all' = << >>
    /\ decoded' = << >>
    /\ UNCHANGED << plan, total_decoded_len, sink_len, decoder >>
    /\ UNCHANGED encVars
    /\ UNCHANGED taskVars
    /\ UNCHANGED toolVars

(* ============================ the caller ============================== *)

\* the caller appends the decoded buffer to its output and goes on to the
\* next segment (tests/test_codec.rs, test_gapless_multiple_files)
Collect ==
    /\ dec_pc = "returned"
    /\ worker_pc \in { "exited", "panicked" }
    /\ segs' = segs + 1
    /\ IF stream_from = "encode"
       THEN /\ total_original_len' = total_original_len + input.len
            /\ total_decoded_len' = total_decoded_len + PiecesLen(decoded)
       ELSE UNCHANGED << total_original_len, total_decoded_len >>
    /\ stream_from' = "none"
    /\ encoded' = NoStream
    /\ enc_pc' = "idle"
    /\ enc_result' = "none"
    /\ input' = [len |-> 0, channels |-> 0]
    /\ per_chan' = << >>
    /\ padded' = << >>
    /\ num_frames' = 0
    /\ frame_results' = << >>
    /\ done_order' = << >>
    /\ dec_pc' = "idle"
    /\ dec_result' = "none"
    /\ worker_pc' = "none"
    /\ idx' = 0
    /\ batch_end' = 0
    /\ batch_results' = << >>
    /\ consumed_count' = 0
    /\ last_consumed' = -1
    /\ overlap' = ZeroOverlap
    /\ last_hop' = NoHop
    /\ chunk_samples' = 0
    /\ emitted' = 0
    /\ chan' = << >>
    /\ sent_log' = << >>
    /\ tx_alive' = FALSE
    /\ progress_cap' = NoProgress
    /\ progress_len' = 0
    /\ all' = << >>
    /\ decoded' = << >>
    /\ UNCHANGED << plan, sink_len, decoder >>
    /\ UNCHANGED taskVars
    /\ UNCHANGED toolVars

(* ======================= the command line (main) ====================== *)

\* what an argument after the mode flag stands for: a file that the
\* operation handles ("ok"), a path that does not exist, a path with the
\* wrong extension, an existing file of the right extension that the
\* loader rejects, a wav/flac file too short for encode (at most HOP_SIZE/2
\* samples per channel), or an option
FileArgs == {"ok", "not_found", "wrong_ext", "unreadable"}

EncodeArgs == FileArgs \cup {"too_short"}

DecodeArgs == FileArgs \cup {"--wav", "--flac-level N", "--flac-level ?"}

PlayArgs == FileArgs \cup {"--ffplay"}

ArgsOf(mode) ==
    CASE mode = "encode" -> EncodeArgs
      [] mode = "decode" -> DecodeArgs
      [] mode = "play" -> PlayArgs

\* what the ffplay child process does with the audio piped to it
FfplayOutcomes == {"plays", "spawn_fails", "rejects", "exits_unsuccessfully"}

ArgLists(mode) ==
    UNION {[1..n -> ArgsOf(mode)] : n \in (IF mode = "encode" THEN 1 ELSE 0)..MaxArgs}

\* std::process::exit(code), or main returning / panicking
CliExit(code) ==
    /\ cli_pc' = "exited"
    /\ exit_code' = code

\* main is entered with the arguments after the program name (and the flag)
CliStart(mode, args) ==
    /\ cli_pc = "none"
    /\ cli_mode' = mode
    /\ cli_args' = args
    /\ cli_pos' = 1
    /\ IF mode # "encode" /\ args = << >>
       THEN /\ CliExit(1)
            /\ error_seen' = TRUE
       ELSE /\ cli_pc' = IF mode = "encode" THEN "run" ELSE "parse"
            /\ UNCHANGED << exit_code, error_seen >>
    /\ UNCHANGED << cli_files, use_ffplay, has_errors >>
    /\ UNCHANGED << encoded, stream_from >>
    /\ UNCHANGED << encVars, decVars, sessionVars, taskVars, fileVars, quantVars >>

\* one turn of the loop that collects files and options (-d and -p)
CliParseArg ==
    /\ cli_pc = "parse"
    /\ cli_pos <= Len(cli_args)
    /\ LET a == cli_args[cli_pos]
       IN  CASE a \in {"--wav", "--flac-level N"} ->
                  /\ cli_pos' = cli_pos + 1
                  /\ UNCHANGED << cli_pc, cli_files, use_ffplay, has_errors,
                                  error_seen, exit_code >>
             [] a = "--flac-level ?" ->
                  /\ CliExit(1)
                  /\ error_seen' = TRUE
                  /\ UNCHANGED << cli_pos, cli_files, use_ffplay, has_errors >>
             [] a = "--ffplay" ->
                  /\ use_ffplay' = TRUE
                  /\ cli_pos' = cli_pos + 1
                  /\ UNCHANGED << cli_pc, cli_files, has_errors, error_seen, exit_code >>
             [] a \in {"not_found", "wrong_ext"} ->
                  /\ error_seen' = TRUE
                  /\ IF cli_mode = "decode"
                     THEN /\ has_errors' = TRUE
                          /\ cli_pos' = cli_pos + 1
                          /\ UNCHANGED << cli_pc, exit_code >>
                     ELSE /\ CliExit(1)
                          /\ UNCHANGED << has_errors, cli_pos >>
                  /\ UNCHANGED << cli_files, use_ffplay >>
             [] OTHER ->
                  /\ cli_files' = Append(cli_files, a)
                  /\ cli_pos' = cli_pos + 1
                  /\ UNCHANGED << cli_pc, use_ffplay, has_errors, error_seen, exit_code >>
    /\ UNCHANGED << cli_mode, cli_args >>
    /\ UNCHANGED << encoded, stream_from >>
    /\ UNCHANGED << encVars, decVars, sessionVars, taskVars, fileVars, quantVars >>

\* after the loop: no file left to work on is an error
CliParseDone ==
    /\ cli_pc = "parse"
    /\ cli_pos > Len(cli_args)
    /\ IF cli_files = << >>
       THEN /\ CliExit(1)
            /\ error_seen' = TRUE
            /\ UNCHANGED cli_pos
       ELSE /\ cli_pc' = "run"
            /\ cli_pos' = 1
            /\ UNCHANGED << exit_code, error_seen >>
    /\ UNCHANGED << cli_mode, cli_args, cli_files, use_ffplay, has_errors >>
    /\ UNCHANGED << encoded, stream_from >>
    /\ UNCHANGED << encVars, decVars, sessionVars, taskVars, fileVars, quantVars >>

\* encode mode: one turn of the loop over the arguments
CliEncodeFile ==
    /\ cli_pc = "run"
    /\ cli_mode = "encode"
    /\ cli_pos <= Len(cli_args)
    /\ LET a == cli_args[cli_pos]
       IN  IF a = "too_short"
           THEN \* Encoder::encode panics (slice out of range), main unwinds
                /\ CliExit(101)
                /\ error_seen' = TRUE
                /\ UNCHANGED << cli_pos, has_errors >>
           ELSE /\ cli_pos' = cli_pos + 1
                /\ has_errors' = (has_errors \/ a # "ok")
                /\ error_seen' = (error_seen \/ a # "ok")
                /\ UNCHANGED << cli_pc, exit_code >>
    /\ UNCHANGED << cli_mode, cli_args, cli_files, use_ffplay >>
    /\ UNCHANGED << encoded, stream_from >>
    /\ UNCHANGED << encVars, decVars, sessionVars, taskVars, fileVars, quantVars >>

\* decode mode: decode_file on the next collected file
CliDecodeFile ==
    /\ cli_pc = "run"
    /\ cli_mode = "decode"
    /\ cli_pos <= Len(cli_files)
    /\ cli_pos' = cli_pos + 1
    /\ has_errors' = (has_errors \/ cli_files[cli_pos] # "ok")
    /\ error_seen' = (error_seen \/ cli_files[cli_pos] # "ok")
    /\ UNCHANGED << cli_pc, exit_code >>
    /\ UNCHANGED << cli_mode, cli_args, cli_files, use_ffplay >>
    /\ UNCHANGED << encoded, stream_from >>
    /\ UNCHANGED << encVars, decVars, sessionVars, taskVars, fileVars, quantVars >>

\* the value play_file_with_ffplay returns
PlayFileWithFfplay(file, outcome) ==
    IF file = "unreadable" THEN "Err"               \* load_encoded(&input_path)?
    ELSE IF outcome = "spawn_fails" THEN "Err"      \* return Err(e.into())
    ELSE "Ok"    \* a failed write ends the loop, an unsuccessful exit status
                 \* is printed: the function still ends with Ok(())

\* play mode with --ffplay: the next file is piped to an ffplay process
CliPlayFfplay(outcome) ==
    /\ cli_pc = "run"
    /\ cli_mode = "play"
    /\ use_ffplay
    /\ cli_pos <= Len(cli_files)
    /\ LET file == cli_files[cli_pos]
       IN  /\ error_seen' = (error_seen \/ file # "ok" \/ outcome # "plays")
           /\ IF PlayFileWithFfplay(file, outcome) = "Err"
              THEN /\ CliExit(1)
                   /\ UNCHANGED cli_pos
              ELSE /\ cli_pos' = cli_pos + 1
                   /\ UNCHANGED << cli_pc, exit_code >>
    /\ UNCHANGED << cli_mode, cli_args, cli_files, use_ffplay, has_errors >>
    /\ UNCHANGED << encoded, stream_from >>
    /\ UNCHANGED << encVars, decVars, sessionVars, taskVars, fileVars, quantVars >>

\* play mode without --ffplay: play_files_gapless on all the files
CliPlayGapless(device_ok) ==
    /\ cli_pc = "run"
    /\ cli_mode = "play"
    /\ ~use_ffplay
    /\ cli_pos <= Len(cli_files)
    /\ LET failed == \/ ~device_ok
                     \/ \E i \in 1..Len(cli_files) : cli_files[i] # "ok"
       IN  /\ error_seen' = (error_seen \/ failed)
           /\ IF failed
              THEN /\ CliExit(1)
                   /\ UNCHANGED cli_pos
              ELSE /\ cli_pos' = Len(cli_files) + 1
                   /\ UNCHANGED << cli_pc, exit_code >>
    /\ UNCHANGED << cli_mode, cli_args, cli_files, use_ffplay, has_errors >>
    /\ UNCHANGED << encoded, stream_from >>
    /\ UNCHANGED << encVars, decVars, sessionVars, taskVars, fileVars, quantVars >>

\* the end of main: exit(1) if has_errors, else main returns Ok(())
CliFinish ==
    /\ cli_pc = "run"
    /\ cli_pos > Len(IF cli_mode = "encode" THEN cli_args ELSE cli_files)
    /\ CliExit(IF has_errors THEN 1 ELSE 0)
    /\ UNCHANGED << cli_mode, cli_args, cli_pos, cli_files, use_ffplay,
                    has_errors, error_seen >>
    /\ UNCHANGED << encoded, stream_from >>
    /\ UNCHANGED << encVars, decVars, sessionVars, taskVars, fileVars, quantVars >>

\* the command line tool is not running
CliIdle ==
    /\ cli_pc = "none"
    /\ cli_mode = "none"
    /\ cli_args = << >>
    /\ cli_pos = 0
    /\ cli_files = << >>
    /\ use_ffplay = FALSE
    /\ has_errors = FALSE
    /\ error_seen = FALSE
    /\ exit_code = -1

NextCli ==
    \/ \E mode \in {"encode", "decode", "play"} :
          \E args \in ArgLists(mode) : CliStart(mode, args)
    \/ CliParseArg
    \/ CliParseDone
    \/ CliEncodeFile
    \/ CliDecodeFile
    \/ \E outcome \in FfplayOutcomes : CliPlayFfplay(outcome)
    \/ \E device_ok \in BOOLEAN : CliPlayGapless(device_ok)
    \/ CliFinish

(* ================== save_encoded / load_encoded ======================= *)
(* bincode::serialize writes the fields in declaration order: integers as  *)
(* fixed-width little-endian bytes, an f32 as the 4 bytes of its bit       *)
(* pattern, a Vec as a u64 length followed by its elements, an Option as a *)
(* tag byte (0: None, 1: Some) followed by the value.  Here the value is   *)
(* concrete: a sparse list is a sequence of pairs <<k, q>>, a scale factor *)
(* is the bit pattern of the f32, raw_pcm is [is_some, data].              *)

\* an integer v >= 0 as n little-endian bytes
RECURSIVE LittleEndian(_, _)
LittleEndian(v, n) ==
    IF n = 0 THEN << >> ELSE << v % 256 >> \o LittleEndian(v \div 256, n - 1)

\* an i16 reinterpreted as the u16 of the same 16 bits
I16Bits(q) == q % 65536

\* the u16 read from the file taken as the i16 it stands for, without the sign
U16AsI16Unsigned(v) == v

\* the u16 read from the file taken as the i16 it stands for
U16AsI16(v) == IF v >= 32768 THEN v - 65536 ELSE v

RECURSIVE Flatten(_)
Flatten(ss) == IF ss = << >> THEN << >> ELSE Head(ss) \o Flatten(Tail(ss))

\* a Vec: its length as a u64, then the elements already serialized
SerializeVec(elems) == LittleEndian(Len(elems), 8) \o Flatten(elems)

SerializePairs(list) ==
    SerializeVec([i \in 1..Len(list) |->
                     LittleEndian(list[i][1], 2) \o LittleEndian(I16Bits(list[i][2]), 2)])

SerializeFrame(frame) ==
    SerializeVec([c \in 1..Len(frame.sparse_coeffs_per_channel) |->
                     SerializePairs(frame.sparse_coeffs_per_channel[c])])
    \o SerializeVec([c \in 1..Len(frame.scale_factors) |->
                        LittleEndian(frame.scale_factors[c], 4)])
    \o (IF frame.raw_pcm.is_some
        THEN << 1 >> \o SerializeVec([i \in 1..Len(frame.raw_pcm.data) |->
                                         LittleEndian(I16Bits(frame.raw_pcm.data[i]), 2)])
        ELSE << 0 >>)

\* bincode::serialize(encoded)
Serialize(value) ==
    LittleEndian(value.header.sample_rate, 4)
    \o LittleEndian(value.header.channels, 2)
    \o LittleEndian(value.header.total_samples, 8)
    \o SerializeVec([f \in 1..Len(value.frames) |-> SerializeFrame(value.frames[f])])
    \o LittleEndian(value.gapless_info.encoder_delay, 4)
    \o LittleEndian(value.gapless_info.padding, 4)
    \o LittleEndian(value.gapless_info.original_length, 8)

\* what a reader returns: the value read and the position after it, or an
\* error (unexpected end of the data, invalid tag)
ReadFail == [ok |-> FALSE, val |-> << >>, pos |-> 0]

Read(v, p) == [ok |-> TRUE, val |-> v, pos |-> p]

\* the integer held by the n little-endian bytes at pos
RECURSIVE IntAt(_, _, _)
IntAt(bytes, pos, n) ==
    IF n = 0 THEN 0 ELSE bytes[pos] + 256 * IntAt(bytes, pos + 1, n - 1)

ReadInt(bytes, pos, n) ==
    IF pos + n - 1 > Len(bytes) THEN ReadFail
    ELSE Read(IntAt(bytes, pos, n), pos + n)

\* the `?` of the readers: an error ends the reading, a value read goes on to
\* the next reader
Then(r, Next_(_)) == IF ~r.ok THEN ReadFail ELSE Next_(r)

\* count integers of n bytes each
RECURSIVE ReadInts(_, _, _, _)
ReadInts(bytes, pos, count, n) ==
    IF count = 0 THEN Read(<< >>, pos)
    ELSE Then(ReadInt(bytes, pos, n), LAMBDA first :
         Then(ReadInts(bytes, first.pos, count - 1, n), LAMBDA rest :
         Read(<< first.val >> \o rest.val, rest.pos)))

\* a Vec<(u16, i16)>
ReadPairs(bytes, pos) ==
    Then(ReadInt(bytes, pos, 8), LAMBDA len :
    Then(ReadInts(bytes, len.pos, 2 * len.val, 2), LAMBDA ints :
    Read([i \in 1..len.val |-> << ints.val[2 * i - 1], U16AsI16(ints.val[2 * i]) >>],
         ints.pos)))

\* count sparse lists
RECURSIVE ReadLists(_, _, _)
ReadLists(bytes, pos, count) ==
    IF count = 0 THEN Read(<< >>, pos)
    ELSE Then(ReadPairs(bytes, pos), LAMBDA first :
         Then(ReadLists(bytes, first.pos, count - 1), LAMBDA rest :
         Read(<< first.val >> \o rest.val, rest.pos)))

\* an Option<Vec<i16>>
ReadRawPcm(bytes, pos) ==
    Then(ReadInt(bytes, pos, 1), LAMBDA tag :
    IF tag.val > 1 THEN ReadFail
    ELSE IF tag.val = 0 THEN Read([is_some |-> FALSE, data |-> << >>], tag.pos)
    ELSE Then(ReadInt(bytes, tag.pos, 8), LAMBDA len :
         Then(ReadInts(bytes, len.pos, len.val, 2), LAMBDA ints :
         Read([is_some |-> TRUE,
               data |-> [i \in 1..len.val |-> U16AsI16(ints.val[i])]],
              ints.pos))))

\* an EncodedFrame
ReadFrame(bytes, pos) ==
    Then(ReadInt(bytes, pos, 8), LAMBDA nlists :
    Then(ReadLists(bytes, nlists.pos, nlists.val), LAMBDA lists :
    Then(ReadInt(bytes, lists.pos, 8), LAMBDA nscales :
    Then(ReadInts(bytes, nscales.pos, nscales.val, 4), LAMBDA scales :
    Then(ReadRawPcm(bytes, scales.pos), LAMBDA raw :
    Read([sparse_coeffs_per_channel |-> lists.val,
          scale_factors |-> scales.val,
          raw_pcm |-> raw.val],
         raw.pos))))))

RECURSIVE ReadFrames(_, _, _)
ReadFrames(bytes, pos, count) ==
    IF count = 0 THEN Read(<< >>, pos)
    ELSE Then(ReadFrame(bytes, pos), LAMBDA first :
         Then(ReadFrames(bytes, first.pos, count - 1), LAMBDA rest :
         Read(<< first.val >> \o rest.val, rest.pos)))

\* bincode::deserialize(&data): Ok(value) or Err; the fields are read in the
\* order of the struct: header, frames, gapless_info
Deserialize(bytes) ==
    LET read ==
            Then(ReadInt(bytes, 1, 4), LAMBDA rate :
            Then(ReadInt(bytes, rate.pos, 2), LAMBDA chans :
            Then(ReadInt(bytes, chans.pos, 8), LAMBDA total :
            Then(ReadInt(bytes, total.pos, 8), LAMBDA count :
            Then(ReadFrames(bytes, count.pos, count.val), LAMBDA frames :
            Then(ReadInt(bytes, frames.pos, 4), LAMBDA delay :
            Then(ReadInt(bytes, delay.pos, 4), LAMBDA padding :
            Then(ReadInt(bytes, padding.pos, 8), LAMBDA original :
            Read([header |-> [sample_rate |-> rate.val,
                              channels |-> chans.val,
                              total_samples |-> total.val],
                  frames |-> frames.val,
                  gapless_info |-> [encoder_delay |-> delay.val,
                                    padding |-> padding.val,
                                    original_length |-> original.val]],
                 original.pos)))))))))
    IN  IF read.ok THEN [ok |-> TRUE, value |-> read.val]
        ELSE [ok |-> FALSE, value |-> << >>]

\* the EncodedAudio values written: frames of both kinds, with values at the
\* ends of the fields' ranges (integers stay below 2^31 in the checker)
ContainerLists ==
    { << >>, << <<0, 1>> >>, << <<0, -32768>>, <<1023, 32767>> >>, << <<65535, -1>> >> }

ContainerFrames ==
    {[sparse_coeffs_per_channel |-> << l >>, scale_factors |-> << 1065353216 >>,
      raw_pcm |-> [is_some |-> FALSE, data |-> << >>]] : l \in ContainerLists}
    \cup {[sparse_coeffs_per_channel |-> << l, << >> >>, scale_factors |-> << 786163455, 1 >>,
           raw_pcm |-> [is_some |-> FALSE, data |-> << >>]] : l \in ContainerLists}
    \cup {[sparse_coeffs_per_channel |-> << >>, scale_factors |-> << >>,
           raw_pcm |-> [is_some |-> TRUE, data |-> d]] :
             d \in {<< >>, << 0, -1 >>, << -32768, 32767, 256 >>}}

ContainerHeaders ==
    {[sample_rate |-> r, channels |-> c, total_samples |-> t] :
        r \in {0, 44100}, c \in {1, 65535}, t \in {0, 2147483647}}

ContainerGapless ==
    {[encoder_delay |-> 512, padding |-> p, original_length |-> n] :
        p \in {0, 2147483647}, n \in {0, 16777216}}

ContainerValues ==
    {[header |-> h, frames |-> fs, gapless_info |-> g] :
        h \in ContainerHeaders,
        fs \in UNION {[1..n -> ContainerFrames] : n \in 0..MaxFileFrames},
        g \in ContainerGapless}

\* save_encoded(encoded, path): the file holds the serialized bytes
SaveEncoded ==
    /\ file_pc = "ready"
    /\ file_bytes' = Serialize(file_value)
    /\ file_pc' = "saved"
    /\ UNCHANGED << file_value, file_loaded >>
    /\ UNCHANGED << cliVars, quantVars >>
    /\ UNCHANGED << encoded, stream_from >>
    /\ UNCHANGED << encVars, decVars, sessionVars, taskVars >>

\* load_encoded(path) of the file written
LoadSaved ==
    /\ file_pc = "saved"
    /\ file_loaded' = Deserialize(file_bytes)
    /\ file_pc' = "loaded"
    /\ UNCHANGED << file_value, file_bytes >>
    /\ UNCHANGED << cliVars, quantVars >>
    /\ UNCHANGED << encoded, stream_from >>
    /\ UNCHANGED << encVars, decVars, sessionVars, taskVars >>

\* no file is written
FileIdle ==
    /\ file_pc = "none"
    /\ file_value = << >>
    /\ file_bytes = << >>
    /\ file_loaded = [ok |-> FALSE, value |-> << >>]

NextContainer == SaveEncoded \/ LoadSaved

(* ===================== compress_coefficients ========================== *)
(* The quantizer with values.  A real number is modelled by an integer     *)
(* count of thousandths (UNIT), products and quotients are exact, and the  *)
(* comparisons of the code are made on cross-multiplied integers.          *)

UNIT == 1000

\* 10^(NOISE_FLOOR_DB / 20) = 10^(-2.4) = 0.00398...
NOISE_FLOOR_NUM == 398
NOISE_FLOOR_DEN == 100000

QUANTIZATION_BITS == 16
MIN_QUANTIZATION_BITS == 8

\* (1u32 << (QUANTIZATION_BITS - 1)) as f32
MaxQ == 2 ^ (QUANTIZATION_BITS - 1)

I16_MIN == -32768
I16_MAX == 32767

Abs(x) == IF x < 0 THEN -x ELSE x

\* f32::round of num / den (den > 0): to the nearest integer, halves away from zero
RoundDiv(num, den) ==
    IF num >= 0 THEN (2 * num + den) \div (2 * den)
    ELSE -((2 * (-num) + den) \div (2 * den))

\* mutant: the quantized value is cast without the clamp to the i16 range
QuantizeNoClamp(coeff, scale) == RoundDiv(coeff * MaxQ, scale)

\* (coeff / scale * max_q).round().clamp(i16::MIN, i16::MAX) as i16
Quantize(coeff, scale) ==
    Max(I16_MIN, Min(I16_MAX, RoundDiv(coeff * MaxQ, scale)))

\* abs_val > noise_floor_linear, where noise_floor_linear = 10^(-48/20) * scale
AboveNoiseFloor(abs_val, scale) ==
    abs_val * NOISE_FLOOR_DEN > NOISE_FLOOR_NUM * scale

\* abs_val > threshold, where threshold = thresholds[k] * scale
AboveThreshold(abs_val, t, scale) == abs_val * UNIT > t * scale

\* compute_quantization_bits_fast: 0 when abs_val <= threshold, else a number
\* of bits in 8..16 (only whether it is 0 is used; the least is returned)
ImportanceBits(abs_val, t, scale) ==
    IF ~AboveThreshold(abs_val, t, scale) THEN 0 ELSE MIN_QUANTIZATION_BITS

\* the (index, value) pair pushed for bin k, or nothing
SparseEntry(k, coeff, t, scale) ==
    IF /\ AboveNoiseFloor(Abs(coeff), scale)
       /\ AboveThreshold(Abs(coeff), t, scale)
       /\ ImportanceBits(Abs(coeff), t, scale) # 0
       /\ Quantize(coeff, scale) # 0
    THEN << << k, Quantize(coeff, scale) >> >>
    ELSE << >>

\* compress_coefficients(coeffs, scale, thresholds, NOISE_FLOOR_DB); bins are
\* numbered from 0
RECURSIVE CompressFrom(_, _, _, _)
CompressFrom(k, coeffs, scale, thresholds) ==
    IF k >= Len(coeffs) THEN << >>
    ELSE SparseEntry(k, coeffs[k + 1], thresholds[k + 1], scale)
         \o CompressFrom(k + 1, coeffs, scale, thresholds)

\* coeffs.iter().map(|x| x.abs()).fold(0.0, f32::max)
RECURSIVE MaxAbs(_)
MaxAbs(coeffs) ==
    IF coeffs = << >> THEN 0 ELSE Max(Abs(Head(coeffs)), MaxAbs(Tail(coeffs)))

\* max_val: the largest magnitude, at least 1e-10 (here the least positive value)
ScaleOf(coeffs) == Max(MaxAbs(coeffs), 1)

\* coefficient values tried, in thousandths: a loud frame (peak 20.0), a
\* quiet one (peak 0.5), values near the thresholds
CoeffValues == { -20000, -500, 0, 30, 500, 5000, 20000 }

ThresholdValues == { 0, 1, 35, 750 }

\* what compute_masking_thresholds can return for bin k: E_B * 0.003 /
\* (max(w_B, 0.1) * max(w_p[k], 0.1)) with the band energy E_B at most the
\* largest magnitude and the weights in [0.2, 1], hence at most 0.075 times the
\* largest magnitude; at most 0.05 times it for a bin above 0.3 times it;
\* positive in a band that holds a nonzero coefficient
MaskingThresholds(coeffs) ==
    LET global_max == ScaleOf(coeffs)
    IN  {ts \in [1..Len(coeffs) -> ThresholdValues] :
            \A k \in 1..Len(coeffs) :
               /\ ts[k] * 1000 <= 75 * global_max
               /\ Abs(coeffs[k]) * 10 > 3 * global_max => ts[k] * 100 <= 5 * global_max
               /\ coeffs[k] # 0 => ts[k] > 0}

\* the task's call of compress_coefficients for one channel
QuantRun ==
    /\ quant_pc = "ready"
    /\ quant_sparse' = CompressFrom(0, quant_coeffs, quant_scale, quant_thresholds)
    /\ quant_pc' = "done"
    /\ UNCHANGED << quant_coeffs, quant_scale, quant_thresholds >>
    /\ UNCHANGED << cliVars, fileVars >>
    /\ UNCHANGED << encoded, stream_from >>
    /\ UNCHANGED << encVars, decVars, sessionVars, taskVars >>

\* no quantizer call is looked at
QuantIdle ==
    /\ quant_pc = "none"
    /\ quant_coeffs = << >>
    /\ quant_scale = 1
    /\ quant_thresholds = << >>
    /\ quant_sparse = << >>

InitCodec(p) ==
    /\ plan = p
    /\ segs = 0
    /\ total_original_len = 0
    /\ total_decoded_len = 0
    /\ sink_len = 0
    /\ input = [len |-> 0, channels |-> 0]
    /\ enc_pc = "idle"
    /\ enc_result = "none"
    /\ per_chan = << >>
    /\ padded = << >>
    /\ num_frames = 0
    /\ frame_results = << >>
    /\ done_order = << >>
    /\ encoded = NoStream
    /\ stream_from = "none"
    /\ dec_pc = "idle"
    /\ dec_result = "none"
    /\ worker_pc = "none"
    /\ idx = 0
    /\ batch_end = 0
    /\ batch_results = << >>
    /\ consumed_count = 0
    /\ last_consumed = -1
    /\ overlap = ZeroOverlap
    /\ last_hop = NoHop
    /\ chunk_samples = 0
    /\ emitted = 0
    /\ chan = << >>
    /\ sent_log = << >>
    /\ tx_alive = FALSE
    /\ progress_cap = NoProgress
    /\ progress_len = 0
    /\ all = << >>
    /\ decoded = << >>

\* no task is run on its own
TaskIdle ==
    /\ task_pc = "none"
    /\ task_ch = 0
    /\ task_keep = << >>
    /\ task_sparse = << >>
    /\ task_frame = SpectralFrame(<< >>, 0)

\* nothing but the codec runs
ToolsIdle == CliIdle /\ FileIdle /\ QuantIdle

InitWith(p) == InitCodec(p) /\ TaskIdle /\ ToolsIdle /\ DecoderNew(1, 44100)

Init == InitWith(1)

InitPlaylist == \E p \in 2..MaxSegments : InitWith(p)

Next ==
    \/ /\ stream_from = "none"
       /\ \E ch \in InputChannels : \E n \in InputLens(ch) : EncodeCall(n, ch)
    \/ \E fi \in 0..(num_frames - 1), s \in SparseLens :
          EncodeFrame(fi, [c \in 1..input.channels |-> s])
    \/ EncodeFinish
    \/ /\ stream_from = "none"
       /\ \E s \in LoadableStreams : LoadEncoded(s)
    \/ DecodeCall
    \/ WorkerBatch
    \/ WorkerOverlapAdd
    \/ WorkerSend
    \/ WorkerFinal
    \/ WorkerSendLast
    \/ DecodeRecv
    \/ DecodeRecvDisconnected
    \/ Collect

Spec == Init /\ [][Next]_vars

SpecPlaylist == InitPlaylist /\ [][Next]_vars

\* a player: files are loaded and streamed to the sink one after the other
InitStream == \E p \in 1..MaxSegments : InitWith(p)

WorkerStep ==
    \/ WorkerBatch
    \/ WorkerOverlapAdd
    \/ WorkerSend
    \/ WorkerFinal
    \/ WorkerSendLast

NextStream ==
    \/ /\ stream_from = "none"
       /\ \E s \in LoadableStreams : LoadEncoded(s)
    \/ StreamCall
    \/ WorkerStep
    \/ StreamRecv
    \/ StreamRecvDisconnected
    \/ StreamStop
    \/ PlayNext

SpecStream == InitStream /\ [][NextStream]_vars

\* the worker thread, once spawned, is scheduled until it ends
SpecStreamFair == SpecStream /\ WF_vars(WorkerStep)

\* decode(): the worker thread and the thread inside decode() are both
\* scheduled as long as they can take a step
SpecDecodeFair ==
    /\ Spec
    /\ WF_vars(WorkerStep)
    /\ WF_vars(DecodeRecv \/ DecodeRecvDisconnected)

\* decode() with a progress sender: a stream is loaded and decoded once; the
\* holder of the progress Receiver may take messages, or never does
NextProgress ==
    \/ /\ stream_from = "none"
       /\ \E s \in LoadableStreams : LoadEncoded(s)
    \/ \E cap \in ProgressCaps : DecodeCallProgress(cap)
    \/ WorkerStep
    \/ ProgressStep
    \/ ProgressRecv
    \/ DecodeRecv
    \/ DecodeRecvDisconnected

SpecProgress == Init /\ [][NextProgress]_vars

SpecProgressFair ==
    /\ SpecProgress
    /\ WF_vars(WorkerStep \/ ProgressStep)
    /\ WF_vars(DecodeRecv \/ DecodeRecvDisconnected)

\* a playlist decoded with one Decoder, made with any of the arguments tried
InitDecoder ==
    /\ InitCodec(MaxSegments)
    /\ TaskIdle
    /\ ToolsIdle
    /\ \E args \in DecoderArgs : DecoderNew(args.channels, args.sample_rate)

SpecDecoder == InitDecoder /\ [][Next]_vars

\* one per-frame task, for every channel count and choice of kept bins
InitTask ==
    /\ InitCodec(1)
    /\ DecoderNew(1, 44100)
    /\ ToolsIdle
    /\ \E ch \in 1..MaxChannels : \E keep \in TaskKeeps(ch) :
          /\ task_pc = "ready"
          /\ task_ch = ch
          /\ task_keep = keep
    /\ task_sparse = << >>
    /\ task_frame = SpectralFrame(<< >>, 0)

SpecTask == InitTask /\ [][TaskRun]_vars

\* one run of the command line tool
SpecCli == Init /\ [][NextCli]_vars

\* one value written by save_encoded and read back by load_encoded
InitContainer ==
    /\ InitCodec(1)
    /\ DecoderNew(1, 44100)
    /\ TaskIdle
    /\ CliIdle
    /\ file_pc = "ready"
    /\ file_value \in ContainerValues
    /\ file_bytes = << >>
    /\ file_loaded = [ok |-> FALSE, value |-> << >>]
    /\ QuantIdle

SpecContainer == InitContainer /\ [][NextContainer]_vars

\* one call of compress_coefficients, as the per-frame task makes it: the
\* scale is the largest magnitude, the thresholds come from the masking step
InitQuant ==
    /\ InitCodec(1)
    /\ DecoderNew(1, 44100)
    /\ TaskIdle
    /\ CliIdle
    /\ FileIdle
    /\ quant_pc = "ready"
    /\ quant_coeffs \in [1..QuantBins -> CoeffValues]
    /\ quant_scale = ScaleOf(quant_coeffs)
    /\ quant_thresholds \in MaskingThresholds(quant_coeffs)
    /\ quant_sparse = << >>

SpecQuant == InitQuant /\ [][QuantRun]_vars

(* ============================== claims ================================ *)

\* C1: for every successful encode(samples, channels), decode of the stream
\* returns Ok with a buffer of exactly samples.len() samples.
C1_LengthPreserved ==
    (dec_pc = "returned" /\ stream_from = "encode")
        => (dec_result = "Ok" /\ PiecesLen(decoded) = input.len)

\* a stereo input of several hops was encoded and decoded
C1_Witness ==
    /\ dec_pc = "returned" /\ stream_from = "encode"
    /\ input.channels = 2 /\ input.len >= 2 * HOP_SIZE
    /\ NumFrames(encoded.frames) >= 2
    /\ PiecesLen(all) > PiecesLen(decoded)
    /\ PiecesLen(decoded) = input.len

\* C2: the decoded outputs of independently encoded and decoded segments
\* concatenate to exactly the summed length of the inputs, for any number
\* of segments.
C2_GaplessConcatenation == total_decoded_len = total_original_len

\* two segments were encoded and decoded, and their lengths summed
C2_Witness ==
    /\ segs >= 2
    /\ total_original_len > (MaxPlaylistHops * HOP_SIZE + 1) * 2
    /\ total_decoded_len = total_original_len

\* the structural invariants of the data model for one frame
FrameWellFormed(frame, channels) ==
    IF frame.raw_pcm.is_some
    THEN frame.raw_pcm.len = FRAME_SIZE * channels
    ELSE /\ Len(frame.sparse_coeffs_per_channel) = channels
         /\ frame.scale_factors = channels

StreamWellFormed(stream) ==
    \A r \in 1..Len(stream.frames) :
        FrameWellFormed(stream.frames[r].frame, stream.header.channels)

\* C3 (as claimed): decode drops the first encoder_delay * channels
\* interleaved samples of the collected chunks and truncates to original_length.
C3_TrimDelayTimesChannels ==
    (dec_pc = "returned" /\ StreamWellFormed(encoded)) =>
        decoded =
            Truncate(DropFront(all, encoded.gapless_info.encoder_delay
                                       * encoded.header.channels),
                     encoded.gapless_info.original_length)

\* C4 (as claimed): encode fails with InvalidInput when samples.len() is no
\* multiple of channels.
C4_InvalidInputOnRaggedLength ==
    (/\ enc_pc \in { "returned", "panicked" }
     /\ input.channels > 0
     /\ input.len % input.channels # 0)
        => enc_result = "InvalidInput"

\* C5 (as claimed): encode(samples, 0) yields an InvalidInput error value.
C5_InvalidInputOnZeroChannels ==
    (enc_pc \in { "returned", "panicked" } /\ input.channels = 0)
        => enc_result = "InvalidInput"

\* C6 (as claimed): decode of a stream that violates a structural invariant
\* ends in an error, and decode never returns Ok when the worker failed.
C6_MalformedStreamReported ==
    dec_pc = "returned" =>
        /\ (~ StreamWellFormed(encoded)) => dec_result = "Err"
        /\ worker_pc = "panicked" => dec_result = "Err"

\* C7: the number of frames of a stream produced by encode is
\* max(1, (P - N_frame) / H + 1), P the padded per-channel length.
C7_FrameCount ==
    /\ (enc_pc \in { "frames", "returned" })
          => num_frames = Max(1, (padded[1] - FRAME_SIZE) \div HOP_SIZE + 1)
    /\ stream_from = "encode"
          => NumFrames(encoded.frames)
               = Max(1, (padded[1] - FRAME_SIZE) \div HOP_SIZE + 1)

\* a stream of three frames or more was produced
C7_Witness ==
    /\ stream_from = "encode" /\ enc_result = "Ok"
    /\ NumFrames(encoded.frames) >= 3
    /\ padded[1] >= 2 * FRAME_SIZE

\* C8 (as claimed): P is a multiple of H and the frames cover the whole
\* padded input.
C8_PaddedMultipleOfHop ==
    enc_pc \in { "frames", "returned" } =>
        \A c \in 1..Len(padded) :
            /\ padded[c] % HOP_SIZE = 0
            /\ (num_frames - 1) * HOP_SIZE + FRAME_SIZE = padded[c]

\* C8 (amended): P is H/2 more than a multiple of H and at least L + H; when
\* encode returns a stream, its frames, one per hop position, cover exactly
\* the first P - H/2 samples of every padded channel, which hold every input
\* sample.
C8_PaddedHalfHopPastMultiple ==
    /\ enc_pc \in { "frames", "returned", "panicked" } =>
          \A c \in 1..Len(padded) :
              /\ padded[c] % HOP_SIZE = HOP_SIZE \div 2
              /\ padded[c] >= per_chan[c] + HOP_SIZE
    /\ stream_from = "encode" =>
          \A c \in 1..Len(padded) :
              /\ (NumFrames(encoded.frames) - 1) * HOP_SIZE + FRAME_SIZE
                    = padded[c] - (HOP_SIZE \div 2)
              /\ padded[c] - (HOP_SIZE \div 2) >= (HOP_SIZE \div 2) + per_chan[c]

\* a stereo stream of two frames was produced
C8_Witness ==
    /\ stream_from = "encode" /\ enc_result = "Ok"
    /\ Len(padded) = 2
    /\ NumFrames(encoded.frames) = 2
    /\ padded[1] = 3 * HOP_SIZE + (HOP_SIZE \div 2)

\* C9 (as claimed): encoder_delay = H/2, padding = P - L - H/2 and
\* original_length = header.total_samples = L * channels.
C9_GaplessMetadata ==
    stream_from = "encode" =>
        /\ encoded.gapless_info.encoder_delay = HOP_SIZE \div 2
        /\ encoded.gapless_info.padding = padded[1] - per_chan[1] - (HOP_SIZE \div 2)
        /\ encoded.gapless_info.original_length = encoded.header.total_samples
        /\ encoded.gapless_info.original_length = per_chan[1] * encoded.header.channels

C11_RawPackUnpackInverse ==
    \A fi \in DOMAIN frame_results :
        frame_results[fi].raw_pcm.is_some =>
            \A c \in 0..(input.channels - 1), i \in RawProbes :
                /\ RawPackIndex(c, i) = i * input.channels + c
                /\ RawUnpackIndex(i, c, input.channels) = RawPackIndex(c, i)

\* C12: in every Spectral frame produced by encode, the bin indices of every
\* channel lie in [0, N), N = 1024, and no index appears twice in a channel.
C12_BinIndicesInRangeNoDuplicates ==
    (task_pc = "done" /\ ~ task_frame.raw_pcm.is_some) =>
        \A c \in 1..Len(task_sparse) :
            /\ \A j \in 1..Len(task_sparse[c]) :
                   task_sparse[c][j] >= 0 /\ task_sparse[c][j] < HOP_SIZE
            /\ Cardinality({ task_sparse[c][j] : j \in 1..Len(task_sparse[c]) })
                   = Len(task_sparse[c])

\* a Spectral stereo frame that keeps the highest bin in one channel and
\* several hundred bins in the other
C12_Witness ==
    /\ task_pc = "done" /\ ~ task_frame.raw_pcm.is_some
    /\ task_ch = 2
    /\ Len(task_sparse[1]) = 1 /\ task_sparse[1][1] = HOP_SIZE - 1
    /\ Len(task_sparse[2]) > HOP_SIZE \div 2
    /\ task_frame.sparse_coeffs_per_channel = << 1, Len(task_sparse[2]) >>

\* C13: in every frame of a stream produced by encode the per-channel count
\* equals header.channels: a Spectral frame has header.channels sparse lists
\* and header.channels scale factors, a Raw frame's payload covers
\* header.channels channels of N_frame samples.
C13_FrameChannelCount ==
    stream_from = "encode" =>
        \A r \in 1..Len(encoded.frames) :
            LET f == encoded.frames[r].frame
            IN  \/ /\ ~ f.raw_pcm.is_some
                   /\ Len(f.sparse_coeffs_per_channel) = encoded.header.channels
                   /\ f.scale_factors = encoded.header.channels
                \/ /\ f.raw_pcm.is_some
                   /\ f.raw_pcm.len = FRAME_SIZE * encoded.header.channels
                   /\ f.raw_pcm.len % encoded.header.channels = 0

\* a stream of three channels holding a Spectral and a Raw frame
C13_Witness ==
    /\ stream_from = "encode" /\ enc_result = "Ok"
    /\ encoded.header.channels = 3
    /\ \E r \in 1..Len(encoded.frames) : encoded.frames[r].frame.raw_pcm.is_some
    /\ \E r \in 1..Len(encoded.frames) :
          /\ ~ encoded.frames[r].frame.raw_pcm.is_some
          /\ Len(encoded.frames[r].frame.sparse_coeffs_per_channel) = 3

\* estimated = sum over channels of (8 + 4*|sparse_c|) + (8 + 4*channels) + 64
C14_Estimated ==
    SeqSum([c \in 1..task_ch |-> 8 + 4 * Len(task_sparse[c])]) + (8 + 4 * task_ch) + 64

\* C14: a task emits a Raw frame if and only if estimated >= 0.85 * raw,
\* raw = N_frame * channels * 2, and a Spectral frame otherwise; so every
\* Spectral frame has estimated < 0.85 * raw.
C14_RawIffEstimateAtLeastThreshold ==
    task_pc = "done" =>
        /\ task_frame.raw_pcm.is_some
              <=> (C14_Estimated * 100 >= 85 * (FRAME_SIZE * task_ch * 2))
        /\ (~ task_frame.raw_pcm.is_some) =>
              /\ task_frame.sparse_coeffs_per_channel
                    = [c \in 1..task_ch |-> Len(task_sparse[c])]
              /\ C14_Estimated * 100 < 85 * (FRAME_SIZE * task_ch * 2)

\* a stereo task whose estimate is the largest one below the threshold
\* (6960 < 6963.2) returned a Spectral frame
C14_Witness ==
    /\ task_pc = "done" /\ task_ch = 2
    /\ Len(task_sparse[1]) + Len(task_sparse[2]) = 1716
    /\ C14_Estimated = 6960
    /\ ~ task_frame.raw_pcm.is_some

\* C15: whatever the order the per-frame tasks finish in, frames[f] of the
\* stream encode returns is the frame computed from the block that starts at
\* padded position f * H.
C15_FramesInTimeOrder ==
    (stream_from = "encode" /\ dec_pc = "idle") =>
        /\ Len(done_order) = NumFrames(encoded.frames)
        /\ \A f \in 0..(NumFrames(encoded.frames) - 1) :
              \E j \in 1..Len(done_order) :
                  /\ done_order[j].start = f * HOP_SIZE
                  /\ encoded.frames[f + 1].frame = frame_results[done_order[j].fi]
                  /\ \A k \in 1..Len(done_order) :
                        done_order[k].start = f * HOP_SIZE => k = j

\* a stream of three different-looking frames whose tasks finished last to first
C15_Witness ==
    /\ stream_from = "encode" /\ dec_pc = "idle" /\ enc_result = "Ok"
    /\ Len(done_order) = 3
    /\ done_order[1].fi = 2 /\ done_order[2].fi = 1 /\ done_order[3].fi = 0
    /\ encoded.frames[1].frame.raw_pcm.is_some
    /\ ~ encoded.frames[2].frame.raw_pcm.is_some
    /\ ~ encoded.frames[3].frame.raw_pcm.is_some

\* C16: frames are decoded in contiguous batches of at most 32, and for
\* every order in which the tasks of a batch finish the overlap-add step
\* consumes frames 0, 1, ..., F-1 in increasing order, each exactly once, so
\* the samples are emitted in time order.
C16_BatchedInOrderConsumption ==
    /\ Len(batch_results) <= DECODE_BATCH
    /\ worker_pc \in { "ola", "send" } =>
          /\ batch_end - idx <= DECODE_BATCH
          /\ batch_end <= NumFrames(encoded.frames)
    /\ \A j \in 1..Len(batch_results) : batch_results[j] = consumed_count + j - 1
    /\ last_consumed = consumed_count - 1
    /\ worker_pc \in { "loop", "ola", "send" } =>
          emitted = consumed_count * HOP_SIZE * encoded.header.channels
    /\ worker_pc \in { "sendlast", "exited" } =>
          /\ consumed_count = NumFrames(encoded.frames)
          /\ emitted = (consumed_count + 1) * HOP_SIZE * encoded.header.channels
    /\ StreamWellFormed(encoded) => worker_pc # "panicked"

\* a stream of several full batches and a shorter last one was decoded to its end
C16_Witness ==
    /\ worker_pc = "exited"
    /\ NumFrames(encoded.frames) > 2 * DECODE_BATCH
    /\ NumFrames(encoded.frames) % DECODE_BATCH # 0
    /\ consumed_count = NumFrames(encoded.frames)
    /\ last_consumed = NumFrames(encoded.frames) - 1

\* C17: every chunk decode_streaming sends holds a whole number of hops, a
\* non-terminal chunk holds exactly 500 hops, exactly one chunk has is_last
\* and it is the last one sent, and it is sent even when F is a multiple of
\* 500 (it then holds only the final overlap hop).
C17_ChunkSequence ==
    LET hop == HOP_SIZE * encoded.header.channels
        F == NumFrames(encoded.frames)
    IN  /\ \A k \in 1..Len(sent_log) :
              /\ sent_log[k].len > 0
              /\ sent_log[k].len % hop = 0
              /\ (~ sent_log[k].is_last) => sent_log[k].len = FRAMES_PER_CHUNK * hop
              /\ sent_log[k].is_last => (k = Len(sent_log) /\ worker_pc = "exited")
        /\ worker_pc = "exited" =>
              /\ Len(sent_log) = F \div FRAMES_PER_CHUNK + 1
              /\ sent_log[Len(sent_log)].is_last
              /\ sent_log[Len(sent_log)].len = ((F % FRAMES_PER_CHUNK) + 1) * hop
              /\ (F % FRAMES_PER_CHUNK) = 0 => sent_log[Len(sent_log)].len = hop

\* a stereo stream of exactly 500 frames was decoded: one chunk of 500 hops,
\* then the terminal chunk with the final overlap hop alone
C17_Witness ==
    /\ worker_pc = "exited"
    /\ encoded.header.channels = 2
    /\ NumFrames(encoded.frames) = FRAMES_PER_CHUNK
    /\ Len(sent_log) = 2
    /\ ~ sent_log[1].is_last /\ sent_log[1].len = FRAMES_PER_CHUNK * HOP_SIZE * 2
    /\ sent_log[2].is_last /\ sent_log[2].len = HOP_SIZE * 2

\* the chunks as pieces of the worker's output
ChunkPieces(chunks) == [k \in 1..Len(chunks) |-> [from |-> chunks[k].from, len |-> chunks[k].len]]

\* C18: at most 5 chunks are buffered between the worker and the consumer,
\* a send cannot complete while 5 are buffered (the worker waits until the
\* consumer receives one), and chunks are received in the order sent.
C18_BoundedFifo ==
    /\ Len(chan) <= CHANNEL_CAPACITY
    /\ (Len(chan) = CHANNEL_CAPACITY /\ dec_pc = "recv") =>
          /\ ~ ENABLED WorkerSend
          /\ ~ ENABLED WorkerSendLast
          /\ ENABLED DecodeRecv
    /\ dec_pc \in { "recv", "returned" } =>
          all \o ChunkPieces(chan) = ChunkPieces(sent_log)

\* five chunks are buffered and the worker has a sixth, full one to send
C18_Witness ==
    /\ Len(chan) = CHANNEL_CAPACITY
    /\ worker_pc = "send" /\ dec_pc = "recv"
    /\ ~ ENABLED WorkerSend
    /\ Len(sent_log) = Len(all) + CHANNEL_CAPACITY
    /\ chunk_samples = FRAMES_PER_CHUNK * HOP_SIZE * encoded.header.channels

\* C19: while the consumer holds its Receiver without receiving, the worker
\* waits at a send once the channel is full; once the consumer has dropped
\* the Receiver the worker is eventually torn down: it ends, and does not
\* stay blocked on a send.
C19_WorkerEndsAfterDrop ==
    /\ [](((dec_pc = "stream" /\ Len(chan) = CHANNEL_CAPACITY)
              => (~ ENABLED WorkerSend /\ ~ ENABLED WorkerSendLast)))
    /\ (dec_pc = "dropped") ~> (worker_pc \in { "exited", "panicked" })

\* the consumer dropped the Receiver while five chunks were buffered and the
\* worker was waiting to send, and the worker has ended since
C19_Witness ==
    /\ dec_pc = "dropped"
    /\ worker_pc = "exited"
    /\ Len(sent_log) = CHANNEL_CAPACITY
    /\ ~ sent_log[Len(sent_log)].is_last
    /\ consumed_count = NumFrames(encoded.frames)
    /\ NumFrames(encoded.frames) > CHANNEL_CAPACITY * FRAMES_PER_CHUNK

\* C20 (as claimed): the samples queued in the sink for the files played
\* are the gapless-trimmed outputs, their number the sum of the tracks'
\* original lengths.
C20_SinkHoldsTrimmedOutput ==
    LET before == sink_len - PiecesLen(all)    \* queued by the earlier tracks
    IN  (/\ dec_pc = "played"
         /\ StreamWellFormed(encoded)
         /\ NumFrames(encoded.frames) >= 1
         /\ before = total_original_len)
            => /\ sink_len - before = encoded.gapless_info.original_length
               /\ sink_len = total_original_len + encoded.gapless_info.original_length

\* C21 (as claimed): the command line tool exits with code 0 only when every
\* requested operation succeeded, and with code 1 whenever an error occurred
\* (a bad argument, a file that fails, a player that rejects the audio or
\* exits unsuccessfully).  Stated for the runs that end by exit or by main
\* returning; a run in which Encoder::encode panics ends with code 101.
C21_ExitCodeReportsErrors ==
    (cli_pc = "exited" /\ exit_code # 101) =>
        /\ (exit_code = 0) <=> ~error_seen
        /\ error_seen => exit_code = 1

\* C22: container round trip.  For every EncodedAudio value, load_encoded
\* applied to the file that save_encoded wrote returns Ok with a value equal
\* to it field by field.
C22_ContainerRoundTrip ==
    file_pc = "loaded" => file_loaded = [ok |-> TRUE, value |-> file_value]

\* a stream with a Spectral frame holding negative quantized values and a Raw
\* frame with negative samples has been saved and loaded
C22_Witness ==
    /\ file_pc = "loaded"
    /\ file_loaded.ok
    /\ Len(file_value.frames) >= 2
    /\ \E f \in 1..Len(file_value.frames) :
          LET fr == file_value.frames[f]
          IN  /\ ~fr.raw_pcm.is_some
              /\ \E c \in 1..Len(fr.sparse_coeffs_per_channel) :
                    \E i \in 1..Len(fr.sparse_coeffs_per_channel[c]) :
                       fr.sparse_coeffs_per_channel[c][i][2] < 0
    /\ \E f \in 1..Len(file_value.frames) :
          /\ file_value.frames[f].raw_pcm.is_some
          /\ \E i \in 1..Len(file_value.frames[f].raw_pcm.data) :
                file_value.frames[f].raw_pcm.data[i] < 0
    /\ Len(file_bytes) > 70

\* C23: overlap-add in decode_streaming.  The overlap buffers start as
\* zeros; frames are taken in time order, and the hop pushed for frame f is,
\* sample by sample and channel-interleaved, the overlap left by frame f-1
\* (zeros for f = 0) plus the first half of block f; the overlap then holds
\* the second half of block f.  After the last frame the overlap is pushed
\* once more, so (F + 1) * H * channels samples are pushed in all.
C23_OverlapAdd ==
    LET F == NumFrames(encoded.frames)
        channels == encoded.header.channels
    IN  /\ worker_pc \in { "loop", "ola", "send", "sendlast", "exited" } =>
              /\ overlap = consumed_count - 1
              /\ consumed_count = 0 => (overlap = ZeroOverlap /\ last_hop = NoHop)
        /\ (worker_pc \in { "loop", "ola", "send" } /\ consumed_count > 0) =>
              /\ last_hop = [ov |-> consumed_count - 2, blk |-> consumed_count - 1]
              /\ emitted = consumed_count * HOP_SIZE * channels
        /\ worker_pc \in { "sendlast", "exited" } =>
              /\ last_hop = [ov |-> F - 1, blk |-> -1]
              /\ emitted = (F + 1) * HOP_SIZE * channels
        /\ \A i \in RawProbes \cap (0..(HOP_SIZE - 1)), ch \in 0..(channels - 1) :
              /\ HopIndex(i, ch, channels) \in 0..(HOP_SIZE * channels - 1)
              /\ HopIndex(i, ch, channels) % channels = ch
              /\ HopIndex(i, ch, channels) \div channels = i

\* a stream of several frames and channels was decoded to its end: the last
\* hop pushed is the overlap left by the last frame
C23_Witness ==
    /\ worker_pc = "exited"
    /\ encoded.header.channels >= 2
    /\ NumFrames(encoded.frames) >= 3
    /\ last_hop = [ov |-> NumFrames(encoded.frames) - 1, blk |-> -1]
    /\ emitted = (NumFrames(encoded.frames) + 1) * HOP_SIZE * encoded.header.channels

\* the bins of the sparse list
EmittedBins == {quant_sparse[j][1] : j \in 1..Len(quant_sparse)}

\* C24: every quantized value emitted in a sparse list is
\* q = round((coeff / S) * 2^15) clamped to the signed 16-bit range, it is never
\* 0 and lies in [-32768, 32767]; a coefficient whose quantized value is 0 is
\* never emitted.
C24_QuantizedValues ==
    quant_pc = "done" =>
        /\ \A j \in 1..Len(quant_sparse) :
              LET k == quant_sparse[j][1]
                  q == quant_sparse[j][2]
                  r == RoundDiv(quant_coeffs[k + 1] * 32768, quant_scale)
              IN  /\ q = (IF r > 32767 THEN 32767 ELSE IF r < -32768 THEN -32768 ELSE r)
                  /\ q # 0
                  /\ q \in (-32768)..32767
        /\ \A k \in 0..(Len(quant_coeffs) - 1) :
              RoundDiv(quant_coeffs[k + 1] * 32768, quant_scale) = 0 => k \notin EmittedBins

\* the positive peak of a frame was emitted as 32767 (2^15 clamped), a
\* negative value was emitted, and a zero coefficient was left out
C24_Witness ==
    /\ quant_pc = "done"
    /\ \E j \in 1..Len(quant_sparse) :
          /\ quant_sparse[j][2] = 32767
          /\ quant_coeffs[quant_sparse[j][1] + 1] = quant_scale
    /\ \E j \in 1..Len(quant_sparse) : quant_sparse[j][2] < 0
    /\ \E k \in 0..(Len(quant_coeffs) - 1) : quant_coeffs[k + 1] = 0 /\ k \notin EmittedBins

\* C25 (as claimed): a coefficient of magnitude a is discarded if a <= L or
\* a <= T[k], with L the noise floor and T[k] the masking threshold of bin k
\* as the masking step computed it (not rescaled by the frame scale factor);
\* only a coefficient with a > L and a > T[k] is emitted.
C25_DiscardBelowThresholds ==
    quant_pc = "done" =>
        \A k \in 0..(Len(quant_coeffs) - 1) :
           LET a == Abs(quant_coeffs[k + 1])
           IN  k \in EmittedBins =>
                  /\ a * NOISE_FLOOR_DEN > NOISE_FLOOR_NUM * quant_scale
                  /\ a > quant_thresholds[k + 1]

\* C26 (as claimed): for every input with per-channel length L >= 0 (the
\* empty input and L <= H/2 included) and every frame index f in [0, F), the
\* block range [f*H, f*H + N_frame) lies inside the padded stream [0, P) of
\* every channel; encode never reads out of bounds and returns a stream.
C26_BlocksInsidePaddedStream ==
    (/\ enc_pc \in { "frames", "returned", "panicked" }
     /\ input.channels >= 1
     /\ input.len % input.channels = 0)
        => /\ \A f \in 0..(num_frames - 1) : \A c \in 1..input.channels :
                 f * HOP_SIZE + FRAME_SIZE <= padded[c]
           /\ enc_pc # "panicked"

\* C27 (as claimed): decode preserves channel identity for every channel
\* count >= 1: the number of leading interleaved samples that gapless
\* trimming removes is a multiple of channels, so sample j of the output of
\* decode belongs to channel j mod channels of the input.  Stated for the
\* streams that encode built.
C27_TrimKeepsChannelIdentity ==
    (/\ dec_pc = "returned"
     /\ stream_from = "encode"
     /\ encoded.header.channels >= 1
     /\ decoded # << >>)
        => \A j \in {0, 1, PiecesLen(decoded) - 1} :
              \* output sample j is sample decoded[1].from + j of the worker's
              \* output, which holds channel (position mod channels)
              (decoded[1].from + j) % encoded.header.channels
                  = j % encoded.header.channels

\* the worker waits at a send of the chunk channel
WorkerBlocked ==
    /\ worker_pc \in { "send", "sendlast" }
    /\ ~ ENABLED (WorkerSend \/ WorkerSendLast)

\* decode() waits in rx.recv()
ConsumerBlocked ==
    /\ dec_pc = "recv"
    /\ ~ ENABLED (DecodeRecv \/ DecodeRecvDisconnected)

\* C28: with no progress sender and the worker and the consumer scheduled
\* fairly, decode() eventually returns, on a stream that keeps the data
\* model's invariants the worker eventually sends the terminal chunk, and in no
\* reachable state are the worker and the consumer both blocked.
C28_DecodeTerminates ==
    /\ [](~ (WorkerBlocked /\ ConsumerBlocked))
    /\ (dec_pc = "recv") ~> (dec_pc = "returned")
    /\ (dec_pc = "recv" /\ StreamWellFormed(encoded))
          ~> (sent_log # << >> /\ sent_log[Len(sent_log)].is_last)

\* decode() has returned for a stream long enough to fill the channel while
\* the worker was ahead of the consumer: every chunk was sent and collected
C28_Witness ==
    /\ dec_pc = "returned"
    /\ worker_pc = "exited"
    /\ progress_cap = NoProgress
    /\ NumFrames(encoded.frames) > CHANNEL_CAPACITY * FRAMES_PER_CHUNK
    /\ Len(sent_log) > CHANNEL_CAPACITY
    /\ sent_log[Len(sent_log)].is_last
    /\ PiecesLen(all) = emitted

\* C29 (as claimed): a progress sender never stalls decoding.  When decode is
\* given a progress sender, also one of a bounded channel whose receiver is
\* not drained, the worker still sends every chunk and decode() eventually
\* returns.
C29_ProgressNeverStalls ==
    (dec_pc = "recv" /\ progress_cap # NoProgress /\ StreamWellFormed(encoded))
        ~> (/\ dec_pc = "returned"
            /\ sent_log # << >>
            /\ sent_log[Len(sent_log)].is_last)

\* index of the first frame whose decoding task panics (the number of frames
\* if there is none), found from the stream alone
RECURSIVE FirstPanic(_, _)
FirstPanic(runs, channels) ==
    IF runs = << >> THEN 0
    ELSE IF FramePanics(Head(runs).frame, channels) THEN 0
    ELSE Head(runs).count + FirstPanic(Tail(runs), channels)

\* the number of samples decode() collects from the chunks of a stream
CollectedLen(stream) ==
    LET F == NumFrames(stream.frames)
        channels == stream.header.channels
        p == FirstPanic(stream.frames, channels)
        hops == IF p < F
                THEN \* the chunks sent before the batch of frame p
                     (((p \div DECODE_BATCH) * DECODE_BATCH) \div FRAMES_PER_CHUNK)
                         * FRAMES_PER_CHUNK
                ELSE F + 1
    IN  IF channels = 0 THEN 0 ELSE hops * HOP_SIZE * channels

\* the range of the worker's output that decode() returns for a stream
ExpectedOutput(stream) ==
    LET n == CollectedLen(stream)
        delay == stream.gapless_info.encoder_delay
        from == IF n > delay THEN delay ELSE 0
    IN  [from |-> from, len |-> Min(n - from, stream.gapless_info.original_length)]

\* the pieces of a buffer follow each other without a gap
Contiguous(ps) ==
    \A i \in 1..(Len(ps) - 1) : ps[i + 1].from = ps[i].from + ps[i].len

\* C30: the output of decode is a function of the EncodedAudio value alone.
\* Whatever channels and sample_rate were passed to Decoder::new and however
\* many streams the same Decoder decoded before, the worker counts channels
\* as the stream header says, its first hop is added to all-zero overlap
\* buffers, and decode returns the range of samples that the stream determines.
C30_OutputFunctionOfStream ==
    /\ (worker_pc \in { "loop", "ola", "send", "sendlast", "exited" }
           /\ consumed_count >= 1)
          => emitted >= HOP_SIZE * encoded.header.channels
    /\ (worker_pc \in { "ola", "send", "loop" } /\ consumed_count = 1)
          => last_hop = [ov |-> ZeroOverlap, blk |-> 0]
    /\ worker_pc \in { "sendlast", "exited" }
          => emitted = (NumFrames(encoded.frames) + 1) * HOP_SIZE * encoded.header.channels
    /\ dec_pc = "returned" =>
          /\ Contiguous(decoded)
          /\ PiecesLen(decoded) = ExpectedOutput(encoded).len
          /\ decoded # << >> => decoded[1].from = ExpectedOutput(encoded).from

\* a Decoder made for another channel count than the stream's has decoded a
\* stream before, and has now decoded a stereo stream
C30_Witness ==
    /\ dec_pc = "returned"
    /\ decoder.decodes >= 2
    /\ decoder.channels # encoded.header.channels
    /\ encoded.header.channels = 2
    /\ NumFrames(encoded.frames) >= 1
    /\ decoded # << >>

====
